---- MODULE Spec2Model ----
(***************************************************************************)
(* Model of the source-checkout engine of hosting-worker: the retry        *)
(* helper, the git command manager surface, the auth helper, the           *)
(* workspace preparation and the getSource orchestration.                  *)
(***************************************************************************)
EXTENDS Integers, Sequences, FiniteSets, TLC

VARIABLES
    rh,        \* the RetryHelper instance and the execute() call in progress
    sync,      \* one getSource execution: settings, position, workspace
    auth,      \* auth helpers driven directly, one per auth token
    rf         \* the ref helper called directly on a fetched repository

vars == <<rh, sync, auth, rf>>

Idle == [pc |-> "idle"]

(***************************************************************************)
(* Bounds                                                                  *)
(***************************************************************************)
MaxAttemptsBound == 3
MaxSecondsBound == 2

(***************************************************************************)
(* RetryHelper (retry-helper.ts)                                           *)
(***************************************************************************)
defaultMaxAttempts == 3
defaultMinSeconds == 10
defaultMaxSeconds == 20

Errors == {"err1", "err2"}
Values == {"val1", "val2"}

\* Outcome of one invocation of the action passed to execute().
ActionOutcomes ==
    [ok : {TRUE}, v : Values] \cup [ok : {FALSE}, v : Errors]

\* Seconds are passed in halves so that Math.floor has something to do.
Floor2(halves) == halves \div 2

\* No RetryHelper constructed yet.
RetryBlank ==
    [pc          |-> "new",
     maxAttempts |-> 0,
     minSeconds  |-> 0,
     maxSeconds  |-> 0,
     attempt     |-> 0,
     calls       |-> << >>,
     trace       |-> << >>,
     logged      |-> << >>,
     slept       |-> << >>,
     result      |-> [kind |-> "none", v |-> "none"],
     given       |-> [minHalves |-> 0, maxHalves |-> 0]]

\* A constructor that compares the seconds as passed, before flooring them
RetryHelperNewComparedAsPassed(maxAttempts, minHalves, maxHalves) ==
    [RetryBlank EXCEPT
       !.pc          = IF minHalves > maxHalves THEN "ctor_error" ELSE "ready",
       !.maxAttempts = maxAttempts,
       !.minSeconds  = Floor2(minHalves),
       !.maxSeconds  = Floor2(maxHalves),
       !.given       = [minHalves |-> minHalves, maxHalves |-> maxHalves]]

\* constructor: stores maxAttempts, floors the seconds, rejects min > max.
\* given: the seconds as the caller passed them, in halves.
RetryHelperNew(maxAttempts, minHalves, maxHalves) ==
    LET mn == Floor2(minHalves)
        mx == Floor2(maxHalves)
    IN  [RetryBlank EXCEPT
           !.pc          = IF mn > mx THEN "ctor_error" ELSE "ready",
           !.maxAttempts = maxAttempts,
           !.minSeconds  = mn,
           !.maxSeconds  = mx,
           !.given       = [minHalves |-> minHalves, maxHalves |-> maxHalves]]

\* while (attempt < this.maxAttempts)
RetryLoopGuardOffByOne(attempt, maxAttempts) == attempt <= maxAttempts

RetryLoopGuard(attempt, maxAttempts) == attempt < maxAttempts

\* try { return await action() } catch { log }  -- where control goes next
AfterTryIgnoringSuccess(o) == "sleep"

AfterTry(o) == IF o.ok THEN "returned" ELSE "sleep"

\* getSleepAmount: floor(random * (max - min + 1)) + min
SleepAmounts(r) == r.minSeconds .. r.maxSeconds

RetryInit ==
    /\ rh = RetryBlank
    /\ sync = Idle
    /\ auth = Idle
    /\ rf = Idle

\* new RetryHelper(maxAttempts, minSeconds, maxSeconds)
RetryConstruct ==
    /\ rh.pc = "new"
    /\ \E n \in -1 .. MaxAttemptsBound :
       \E mnH \in 0 .. 2 * MaxSecondsBound + 1 :
       \E mxH \in 0 .. 2 * MaxSecondsBound + 1 :
          rh' = RetryHelperNew(n, mnH, mxH)
    /\ UNCHANGED <<sync, auth, rf>>

\* execute(): let attempt = 1, then the loop test
RetryExecute ==
    /\ rh.pc = "ready"
    /\ rh' = [rh EXCEPT !.attempt = 1,
                        !.pc = IF RetryLoopGuard(1, rh.maxAttempts)
                               THEN "try" ELSE "last"]
    /\ UNCHANGED <<sync, auth, rf>>

\* One pass of the loop body up to the sleep: invoke the action inside
\* try/catch; a success returns its value, a failure is logged.
RetryTry ==
    /\ rh.pc = "try"
    /\ \E o \in ActionOutcomes :
          rh' = [rh EXCEPT
                   !.calls  = Append(@, o),
                   !.trace  = Append(@, "call"),
                   !.logged = IF o.ok THEN @ ELSE Append(@, o.v),
                   !.pc     = AfterTry(o),
                   !.result = IF AfterTry(o) = "returned"
                              THEN [kind |-> "value", v |-> o.v] ELSE @]
    /\ UNCHANGED <<sync, auth, rf>>

\* Sleep, attempt++, and the loop test again.
RetrySleep ==
    /\ rh.pc = "sleep"
    /\ \E s \in SleepAmounts(rh) :
          rh' = [rh EXCEPT
                   !.trace   = Append(@, "sleep"),
                   !.slept   = Append(@, s),
                   !.attempt = @ + 1,
                   !.pc      = IF RetryLoopGuard(rh.attempt + 1, rh.maxAttempts)
                               THEN "try" ELSE "last"]
    /\ UNCHANGED <<sync, auth, rf>>

\* A last attempt that catches the error and returns undefined.
RetryLastSwallowsError ==
    /\ rh.pc = "last"
    /\ \E o \in ActionOutcomes :
          rh' = [rh EXCEPT
                   !.calls  = Append(@, o),
                   !.trace  = Append(@, "call"),
                   !.logged = IF o.ok THEN @ ELSE Append(@, o.v),
                   !.pc     = "returned",
                   !.result = [kind |-> "value",
                               v    |-> IF o.ok THEN o.v ELSE "undefined"]]
    /\ UNCHANGED <<sync, auth, rf>>

\* Last attempt: return await action(), outside any try/catch.
RetryLast ==
    /\ rh.pc = "last"
    /\ \E o \in ActionOutcomes :
          rh' = [rh EXCEPT
                   !.calls  = Append(@, o),
                   !.trace  = Append(@, "call"),
                   !.pc     = IF o.ok THEN "returned" ELSE "thrown",
                   !.result = [kind |-> IF o.ok THEN "value" ELSE "error",
                               v    |-> o.v]]
    /\ UNCHANGED <<sync, auth, rf>>

RetryNext ==
    \/ RetryConstruct
    \/ RetryExecute
    \/ RetryTry
    \/ RetrySleep
    \/ RetryLast

SpecRetry == RetryInit /\ [][RetryNext]_vars

(***************************************************************************)
(* External processes and their outcomes                                   *)
(***************************************************************************)
\* How one external invocation ends: "ok" = it ran and did its work,
\* "fail" = it ran and exited non-zero, "spawn" = exec could not run it
\* (the working directory check of execGit, or the process failed to start).
Outcomes == {"ok", "fail", "spawn"}

\* A fault plan names the steps of one operation that go wrong: a set of
\* <<slot, kind>>, slot = position of the step inside the operation.
Oc(p, k) ==
    IF <<k, "spawn">> \in p THEN "spawn"
    ELSE IF <<k, "fail">> \in p THEN "fail"
    ELSE "ok"

\* The plan in which every external step succeeds
NoFault == <<0, "fail">>

FaultPoints(n) == {<<0, "fail">>} \cup ((1 .. n) \X {"fail", "spawn"})

\* Plans in which at most one step exits with a failure
FailPoints(n) == {NoFault} \cup ((1 .. n) \X {"fail"})

Raised(w) == w.raised # ""

Throw(w, e) == [w EXCEPT !.raised = e]

(***************************************************************************)
(* Config files: a sequence of [k, v] entries                              *)
(***************************************************************************)
CfgCount(cfg, k) == Cardinality({i \in 1 .. Len(cfg) : cfg[i].k = k})

CfgHas(cfg, k) == \E i \in 1 .. Len(cfg) : cfg[i].k = k

CfgUnsetAll(cfg, k) == SelectSeq(cfg, LAMBDA e : e.k # k)

CfgAdd(cfg, k, v) == Append(cfg, [k |-> k, v |-> v])

\* git config <key> <value>: replaces the single value, or adds the key
CfgSet(cfg, k, v) ==
    IF CfgHas(cfg, k)
    THEN [i \in 1 .. Len(cfg) |-> IF cfg[i].k = k THEN [k |-> k, v |-> v] ELSE cfg[i]]
    ELSE CfgAdd(cfg, k, v)

\* Occurrences of a value in the file text (indexOf / lastIndexOf)
CfgOccurrences(cfg, v) == {i \in 1 .. Len(cfg) : cfg[i].v = v}

(***************************************************************************)
(* GitCommandManager (git-command-manager.ts)                              *)
(***************************************************************************)
\* gitEnv as constructed (lfs not requested, user agent set)
GitEnvInitial ==
    [n \in {"GIT_TERMINAL_PROMPT", "GCM_INTERACTIVE", "GIT_LFS_SKIP_SMUDGE",
            "GIT_HTTP_USER_AGENT"} |->
        CASE n = "GIT_TERMINAL_PROMPT" -> "0"
          [] n = "GCM_INTERACTIVE"     -> "Never"
          [] n = "GIT_LFS_SKIP_SMUDGE" -> "1"
          [] OTHER                     -> "git/2.40.0 (hosting-worker)"]

setEnvironmentVariable(w, name, value) ==
    [w EXCEPT !.gitEnv =
        [n \in DOMAIN w.gitEnv \cup {name} |->
            IF n = name THEN value ELSE w.gitEnv[n]]]

removeEnvironmentVariable(w, name) ==
    [w EXCEPT !.gitEnv = [n \in DOMAIN w.gitEnv \ {name} |-> w.gitEnv[n]]]

\* execGit: environment = process.env overlaid with gitEnv; a non-zero exit
\* raises unless allowAllExitCodes; a process that cannot run always raises.
execGit(w, args, allowAllExitCodes, oc) ==
    IF Raised(w) THEN w
    ELSE [w EXCEPT
            !.log    = Append(@, [args |-> args, env |-> w.gitEnv]),
            !.exit   = CASE oc = "ok" -> 0 [] oc = "fail" -> 1 [] OTHER -> -1,
            !.raised = CASE oc = "spawn" -> "exec: unable to run git"
                         [] oc = "fail" /\ ~allowAllExitCodes
                              -> "exec: git failed with exit code 1"
                         [] OTHER -> ""]

Scope(globalConfig) == IF globalConfig THEN "--global" ELSE "--local"

\* The file a config command reads or writes: the repository's config, or
\* $HOME/.gitconfig with HOME taken from the overlay when it is set there.
ConfigTarget(w, globalConfig) ==
    IF ~globalConfig THEN (IF w.hasRepo THEN "local" ELSE "missing")
    ELSE IF "HOME" \notin DOMAIN w.gitEnv THEN "real"
    ELSE IF w.gitEnv["HOME"] \in w.files THEN "temp"
    ELSE "missing"

\* The outcome once git's own exit status is taken into account.
Eff(oc, semanticOk) == IF oc = "ok" /\ ~semanticOk THEN "fail" ELSE oc

ConfigWritable(w, configKey, globalConfig, add) ==
    /\ ConfigTarget(w, globalConfig) # "missing"
    /\ (add \/ CfgCount(w.cfg[ConfigTarget(w, globalConfig)], configKey) <= 1)

ConfigReadable(w, configKey, globalConfig) ==
    /\ ConfigTarget(w, globalConfig) # "missing"
    /\ CfgHas(w.cfg[ConfigTarget(w, globalConfig)], configKey)

ConfigArgs(configKey, configValue, globalConfig, add) ==
    <<"config", Scope(globalConfig)>>
      \o (IF add THEN <<"--add">> ELSE << >>)
      \o <<configKey, configValue>>

\* What a successful `git config` leaves in the target file
configWritten(w1, target, configKey, configValue, add) ==
    IF Raised(w1) THEN w1
    ELSE [w1 EXCEPT !.cfg[target] =
             IF add THEN CfgAdd(@, configKey, configValue)
             ELSE CfgSet(@, configKey, configValue)]

config(w, configKey, configValue, globalConfig, add, oc) ==
    IF Raised(w) THEN w
    ELSE configWritten(
             execGit(w, ConfigArgs(configKey, configValue, globalConfig, add),
                     FALSE,
                     Eff(oc, ConfigWritable(w, configKey, globalConfig, add))),
             ConfigTarget(w, globalConfig), configKey, configValue, add)

\* regexpHelper.escape for the keys in use: every non-word character escaped
Escape(key) ==
    CASE key = "core.sshCommand" -> "core\\.sshCommand"
      [] key = "http.https://github.com/.extraheader"
           -> "http\\.https\\:\\/\\/github\\.com\\/\\.extraheader"
      [] key = "url.https://github.com/.insteadOf"
           -> "url\\.https\\:\\/\\/github\\.com\\/\\.insteadOf"
      [] OTHER -> key

\* return output.exitCode === 0
ExitCodeZero(w1) == IF Raised(w1) THEN w1 ELSE [w1 EXCEPT !.ret = (w1.exit = 0)]

\* configExists: exit code 0 of config --name-only --get-regexp <pattern>
configExists(w, configKey, globalConfig, oc) ==
    IF Raised(w) THEN w
    ELSE ExitCodeZero(
             execGit(w, <<"config", Scope(globalConfig), "--name-only",
                          "--get-regexp", Escape(configKey)>>,
                     TRUE, Eff(oc, ConfigReadable(w, configKey, globalConfig))))

\* An unset that drops one value of the key per call
CfgUnsetFirst(cfg, k) ==
    IF ~CfgHas(cfg, k) THEN cfg
    ELSE LET first == CHOOSE i \in 1 .. Len(cfg) :
                        /\ cfg[i].k = k
                        /\ \A j \in 1 .. i - 1 : cfg[j].k # k
         IN  SubSeq(cfg, 1, first - 1) \o SubSeq(cfg, first + 1, Len(cfg))

configUnsetFirstOnly(w1, target, configKey) ==
    IF Raised(w1) \/ ~w1.ret THEN w1
    ELSE [w1 EXCEPT !.cfg[target] = CfgUnsetFirst(@, configKey)]

\* What a successful `git config --unset-all` leaves in the target file
configUnset(w1, target, configKey) ==
    IF Raised(w1) \/ ~w1.ret THEN w1
    ELSE [w1 EXCEPT !.cfg[target] = CfgUnsetAll(@, configKey)]

\* tryConfigUnset: exit code 0 of config --unset-all <key>
tryConfigUnset(w, configKey, globalConfig, oc) ==
    IF Raised(w) THEN w
    ELSE configUnset(
             ExitCodeZero(
                 execGit(w, <<"config", Scope(globalConfig), "--unset-all",
                              configKey>>,
                         TRUE, Eff(oc, ConfigReadable(w, configKey, globalConfig)))),
             ConfigTarget(w, globalConfig), configKey)

\* submoduleForeach: runs the command in every submodule; raises on failure.
\* What the command does to the submodule's config is applied by the caller.
submoduleForeach(w, command, recursive, oc) ==
    IF Raised(w) THEN w
    ELSE execGit(w, <<"submodule", "foreach">>
                      \o (IF recursive THEN <<"--recursive">> ELSE << >>)
                      \o <<command>>,
                 FALSE, Eff(oc, w.hasRepo))

(***************************************************************************)
(* fs-helper.ts                                                            *)
(***************************************************************************)
\* rmRF of a temporary path: force-removes it, raises when rm fails
rmRF(w, path, oc) ==
    IF Raised(w) THEN w
    ELSE IF oc # "ok" THEN Throw(w, "File was unable to be removed")
    ELSE [w EXCEPT !.files = @ \ {path},
                   !.cfg["temp"] = IF path = w.temporaryHomePath THEN << >> ELSE @]

(***************************************************************************)
(* GitAuthHelper                                                           *)
(***************************************************************************)
Tokens == {"tokA", "tokB"}

\* Buffer.from(`x-access-token:${authToken}`).toString('base64')
Base64Credential(token) ==
    CASE token = "tokA" -> "eC1hY2Nlc3MtdG9rZW46dG9rQQ=="
      [] token = "tokB" -> "eC1hY2Nlc3MtdG9rZW46dG9rQg=="

SSH_COMMAND_KEY == "core.sshCommand"

tokenConfigKey == "http.https://github.com/.extraheader"

tokenPlaceholderConfigValue == "AUTHORIZATION: basic ***"

tokenConfigValue(w) ==
    "AUTHORIZATION: basic " \o Base64Credential(w.settings.authToken)

insteadOfKey == "url.https://github.com/.insteadOf"

insteadOfValues(w) ==
    <<"git@github.com:">>
      \o (IF w.settings.workflowOrganizationId
          THEN <<"org-42@github.com:">> ELSE << >>)

RunnerTemp == "/runner/_temp"

Uuid(n) == "uuid" \o ToString(n)

\* The process, its file system and one command manager with the auth
\* helper built on it (createAuthHelper: all paths empty).
createAuthHelper(settings, facts) ==
    [settings          |-> settings,
     runnerTemp        |-> facts.runnerTemp,
     isWindows         |-> facts.isWindows,
     hasRepo           |-> facts.hasRepo,
     hasSubmodule      |-> facts.hasSubmodule,
     realCfgExists     |-> facts.realCfgExists,
     temporaryHomePath |-> "",
     sshKeyPath        |-> "",
     sshKnownHostsPath |-> "",
     sshCommand        |-> "",
     gitEnv            |-> GitEnvInitial,
     files             |-> {},
     cfg               |-> facts.cfg,
     log               |-> << >>,
     execLog           |-> << >>,
     uuids             |-> 0,
     raised            |-> "",
     exit              |-> 0,
     ret               |-> FALSE,
     out               |-> << >>]

\* Scratch results of the last call are not part of the state.
Settle(w) == [w EXCEPT !.exit = 0, !.ret = FALSE, !.out = << >>]

FileExists(w, file) ==
    CASE file = "local" -> w.hasRepo
      [] file = "temp"  -> w.temporaryHomePath \in w.files
      [] file = "sub"   -> w.hasRepo /\ w.hasSubmodule
      [] OTHER          -> FALSE

\* The first occurrence is replaced however many there are.
replaceTokenPlaceholderFirst(w, file, p, b) ==
    IF Raised(w) THEN w
    ELSE IF ~FileExists(w, file) \/ Oc(p, b + 1) # "ok"
    THEN Throw(w, "readFile failed")
    ELSE LET occ == CfgOccurrences(w.cfg[file], tokenPlaceholderConfigValue)
         IN  IF occ = {}
             THEN Throw(w, "Unable to replace auth placeholder")
             ELSE IF Oc(p, b + 2) # "ok" THEN Throw(w, "writeFile failed")
             ELSE [w EXCEPT !.cfg[file] =
                      [i \in 1 .. Len(@) |->
                          IF i = CHOOSE j \in occ : \A k \in occ : j <= k
                          THEN [k |-> @[i].k, v |-> tokenConfigValue(w)]
                          ELSE @[i]]]

\* replaceTokenPlaceholder: the placeholder must occur exactly once in the
\* file; that occurrence is replaced by the real value (slots b+1, b+2).
replaceTokenPlaceholder(w, file, p, b) ==
    IF Raised(w) THEN w
    ELSE IF ~FileExists(w, file) \/ Oc(p, b + 1) # "ok"
    THEN Throw(w, "readFile failed")
    ELSE LET occ == CfgOccurrences(w.cfg[file], tokenPlaceholderConfigValue)
         IN  IF Cardinality(occ) # 1
             THEN Throw(w, "Unable to replace auth placeholder")
             ELSE IF Oc(p, b + 2) # "ok" THEN Throw(w, "writeFile failed")
             ELSE [w EXCEPT !.cfg[file] =
                      [i \in 1 .. Len(@) |->
                          IF i \in occ
                          THEN [k |-> @[i].k, v |-> tokenConfigValue(w)]
                          ELSE @[i]]]

\* The value handed to `git config` by configureToken
configureTokenValueInline(w) == tokenConfigValue(w)

configureTokenValue(w) == tokenPlaceholderConfigValue

\* configureToken(configPath?, globalConfig?) (slots b+1 .. b+3)
configureToken(w, globalConfig, p, b) ==
    IF Raised(w) THEN w
    ELSE replaceTokenPlaceholder(
             config(w, tokenConfigKey, configureTokenValue(w), globalConfig,
                    FALSE, Oc(p, b + 1)),
             IF globalConfig THEN "temp" ELSE "local", p, b + 1)

\* The pipeline removeGitConfig runs in every submodule
UnsetPipeline(configKey) ==
    "sh -c \"git config --local --name-only --get-regexp '"
      \o Escape(configKey)
      \o "' && git config --local --unset-all '"
      \o configKey \o "' || :\""

unsetIfExists(w1, configKey, oc) ==
    IF Raised(w1) \/ ~w1.ret THEN w1
    ELSE tryConfigUnset(w1, configKey, FALSE, oc)

unsetInSubmodules(w3, configKey) ==
    IF Raised(w3) \/ ~w3.hasSubmodule THEN w3
    ELSE [w3 EXCEPT !.cfg["sub"] = CfgUnsetAll(@, configKey)]

\* removeGitConfig(configKey, submoduleOnly) (slots b+1 .. b+3)
removeGitConfig(w, configKey, submoduleOnly, p, b) ==
    unsetInSubmodules(
        submoduleForeach(
            IF submoduleOnly THEN w
            ELSE unsetIfExists(configExists(w, configKey, FALSE, Oc(p, b + 1)),
                               configKey, Oc(p, b + 2)),
            UnsetPipeline(configKey), TRUE, Oc(p, b + 3)),
        configKey)

\* try { await rmRF(path) } catch { log }
rmRFLogged(w, path, oc) ==
    IF Raised(w) \/ path = "" \/ oc # "ok" THEN w ELSE rmRF(w, path, oc)

\* A removeSsh that also withdraws the GIT_SSH_COMMAND override.
removeSshWithdrawsOverride(w, p, b) ==
    removeEnvironmentVariable(
        removeGitConfig(
            rmRFLogged(rmRFLogged(w, w.sshKeyPath, Oc(p, b + 1)),
                       w.sshKnownHostsPath, Oc(p, b + 2)),
            SSH_COMMAND_KEY, FALSE, p, b + 2),
        "GIT_SSH_COMMAND")

\* removeSsh (slots b+1 .. b+5)
removeSsh(w, p, b) ==
    removeGitConfig(
        rmRFLogged(rmRFLogged(w, w.sshKeyPath, Oc(p, b + 1)),
                   w.sshKnownHostsPath, Oc(p, b + 2)),
        SSH_COMMAND_KEY, FALSE, p, b + 2)

\* removeToken (slots b+1 .. b+3)
removeToken(w, p, b) == removeGitConfig(w, tokenConfigKey, FALSE, p, b)

\* removeAuth (slots b+1 .. b+8)
removeAuth(w, p, b) == removeToken(removeSsh(w, p, b), p, b + 5)

RemoveAuthSlots == 8

\* removeGlobalConfig up to its first suspension: the HOME override is
\* removed and the deletion of the temporary home is started.
removeGlobalConfigBegin(w) ==
    IF Raised(w) \/ w.temporaryHomePath = "" THEN w
    ELSE removeEnvironmentVariable(w, "HOME")

\* removeGlobalConfig, awaited (slot b+1)
removeGlobalConfig(w, p, b) ==
    IF Raised(w) \/ w.temporaryHomePath = "" THEN w
    ELSE rmRF(removeGlobalConfigBegin(w), w.temporaryHomePath, Oc(p, b + 1))

\* Every helper names its directory alike.
NewHomeShared(w) == RunnerTemp \o "/" \o Uuid(1)

\* path.join(runnerTemporary, uuid()): a name no other call obtains
NewHome(w) == RunnerTemp \o "/" \o Uuid(w.uuids + 1)

\* A check that never finds the temporary home set up
alreadySetupNever(w) == FALSE

\* if (this.temporaryHomePath?.length > 0)
alreadySetup(w) == w.temporaryHomePath # ""

\* configureTempGlobalConfig (slots b+1 .. b+3); the config path is w.out
configureTempGlobalConfig(w, p, b) ==
    IF Raised(w) THEN w
    ELSE IF alreadySetup(w)
    THEN [w EXCEPT !.out = <<w.temporaryHomePath \o "/.gitconfig">>]
    ELSE IF ~w.runnerTemp THEN Throw(w, "RUNNER_TEMP is not defined")
    ELSE IF Oc(p, b + 1) # "ok"
    THEN [w EXCEPT !.uuids = @ + 1, !.temporaryHomePath = NewHome(w),
                   !.raised = "mkdir failed"]
    ELSE IF Oc(p, b + 2) # "ok" \/ Oc(p, b + 3) # "ok"
    THEN [w EXCEPT !.uuids = @ + 1, !.temporaryHomePath = NewHome(w),
                   !.files = @ \cup {NewHome(w)},
                   !.raised = IF Oc(p, b + 2) # "ok" THEN "stat failed"
                              ELSE "copying the global config failed"]
    ELSE [w EXCEPT !.uuids = @ + 1, !.temporaryHomePath = NewHome(w),
                   !.files = @ \cup {NewHome(w)},
                   !.cfg["temp"] = IF w.realCfgExists THEN w.cfg["real"] ELSE << >>,
                   !.out = <<NewHome(w) \o "/.gitconfig">>,
                   !.gitEnv = [n \in DOMAIN w.gitEnv \cup {"HOME"} |->
                                 IF n = "HOME" THEN NewHome(w) ELSE w.gitEnv[n]]]

\* for (const v of insteadOfValues) await git.config(key, v, true, true)
RECURSIVE configInsteadOf(_, _, _, _, _)
configInsteadOf(w, values, i, p, b) ==
    IF i > Len(values) THEN w
    ELSE configInsteadOf(
             config(w, insteadOfKey, values[i], TRUE, TRUE, Oc(p, b + i)),
             values, i + 1, p, b)

rethrow(w4, error) == IF Raised(w4) THEN w4 ELSE Throw(w4, error)

\* A catch block that only rethrows
unconfigureOnErrorRethrowOnly(w3, oc) == w3

\* catch (error) { await tryConfigUnset(tokenConfigKey, true); throw error }
unconfigureOnError(w3, oc) ==
    IF ~Raised(w3) THEN w3
    ELSE rethrow(tryConfigUnset([w3 EXCEPT !.raised = ""], tokenConfigKey, TRUE, oc),
                 w3.raised)

httpsInsteadOfSsh(w2, p, b) ==
    IF Raised(w2) \/ w2.settings.sshKey THEN w2
    ELSE configInsteadOf(w2, insteadOfValues(w2), 1, p, b)

\* The try block of configureGlobalAuth (slots b+4 .. b+9)
globalAuthTry(w0, p, b) ==
    httpsInsteadOfSsh(
        tryConfigUnset(configureToken(w0, TRUE, p, b + 3),
                       insteadOfKey, TRUE, Oc(p, b + 7)),
        p, b + 7)

globalAuthBody(w0, p, b) ==
    IF Raised(w0) THEN w0
    ELSE unconfigureOnError(globalAuthTry(w0, p, b), Oc(p, b + 10))

\* configureGlobalAuth (slots b+1 .. b+10)
configureGlobalAuth(w, p, b) ==
    globalAuthBody(configureTempGlobalConfig(w, p, b), p, b)

\* The ssh command line built by configureSsh
SshCommandLine(w, keyBase, hostsBase) ==
    "\"/usr/bin/ssh\" -i \"$RUNNER_TEMP/" \o keyBase \o "\""
      \o (IF w.settings.sshStrict
          THEN " -o StrictHostKeyChecking=yes -o CheckHostIP=no" ELSE "")
      \o " -o \"UserKnownHostsFile=$RUNNER_TEMP/" \o hostsBase \o "\""

KeyPath(w) == RunnerTemp \o "/" \o Uuid(w.uuids)

KnownHostsPath(w) == RunnerTemp \o "/" \o Uuid(w.uuids) \o "_known_hosts"

\* Write key (slots b+1, b+2)
sshWriteKey(w, p, b) ==
    IF Raised(w) THEN w
    ELSE IF ~w.runnerTemp THEN Throw(w, "RUNNER_TEMP is not defined")
    ELSE IF Oc(p, b + 1) # "ok"
    THEN [w EXCEPT !.uuids = @ + 1,
                   !.sshKeyPath = RunnerTemp \o "/" \o Uuid(w.uuids + 1),
                   !.raised = "mkdir failed"]
    ELSE IF Oc(p, b + 2) # "ok"
    THEN [w EXCEPT !.uuids = @ + 1,
                   !.sshKeyPath = RunnerTemp \o "/" \o Uuid(w.uuids + 1),
                   !.raised = "writeFile failed"]
    ELSE [w EXCEPT !.uuids = @ + 1,
                   !.sshKeyPath = RunnerTemp \o "/" \o Uuid(w.uuids + 1),
                   !.files = @ \cup {RunnerTemp \o "/" \o Uuid(w.uuids + 1)}]

\* Remove inherited permissions on Windows (slots b+3, b+4)
sshIcacls(w, p, b) ==
    IF Raised(w) \/ ~w.isWindows THEN w
    ELSE IF Oc(p, b + 3) # "ok"
    THEN [w EXCEPT !.execLog = Append(@, "icacls \"" \o KeyPath(w) \o "\" /grant:r"),
                   !.raised = "exec: icacls failed"]
    ELSE [w EXCEPT
            !.execLog = @ \o <<"icacls \"" \o KeyPath(w) \o "\" /grant:r",
                               "icacls \"" \o KeyPath(w) \o "\" /inheritance:r">>,
            !.raised = IF Oc(p, b + 4) # "ok" THEN "exec: icacls failed" ELSE ""]

\* Write known hosts (slots b+5, b+6)
sshWriteKnownHosts(w, p, b) ==
    IF Raised(w) THEN w
    ELSE IF Oc(p, b + 5) # "ok" THEN Throw(w, "readFile failed")
    ELSE IF Oc(p, b + 6) # "ok"
    THEN [w EXCEPT !.sshKnownHostsPath = KnownHostsPath(w),
                   !.raised = "writeFile failed"]
    ELSE [w EXCEPT !.sshKnownHostsPath = KnownHostsPath(w),
                   !.files = @ \cup {KnownHostsPath(w)}]

sshCommandSet(w) ==
    setEnvironmentVariable(
        [w EXCEPT !.sshCommand =
            SshCommandLine(w, Uuid(w.uuids), Uuid(w.uuids) \o "_known_hosts")],
        "GIT_SSH_COMMAND",
        SshCommandLine(w, Uuid(w.uuids), Uuid(w.uuids) \o "_known_hosts"))

sshCommandPersist(w, oc) ==
    IF ~w.settings.persistCredentials THEN w
    ELSE config(w, SSH_COMMAND_KEY, w.sshCommand, FALSE, FALSE, oc)

\* Configure GIT_SSH_COMMAND and core.sshCommand (slots b+7, b+8)
sshConfigureCommand(w, p, b) ==
    IF Raised(w) THEN w
    ELSE IF Oc(p, b + 7) # "ok"
    THEN Throw(w, "Unable to locate executable file: ssh")
    ELSE sshCommandPersist(sshCommandSet(w), Oc(p, b + 8))

\* configureSsh (slots b+1 .. b+8)
configureSsh(w, p, b) ==
    IF Raised(w) \/ ~w.settings.sshKey THEN w
    ELSE sshConfigureCommand(
             sshWriteKnownHosts(sshIcacls(sshWriteKey(w, p, b), p, b), p, b),
             p, b)

\* configureAuth (slots b+1 .. b+19)
configureAuth(w, p, b) ==
    configureToken(configureSsh(removeAuth(w, p, b), p, b + 8), FALSE, p, b + 16)

ConfigureAuthSlots == 19

\* Config paths found in the output of the submodule pipeline:
\* /(?<=(^|\n)file:)[^\t]+(?=\tremote\.origin\.url)/g
ConfigPathsIn(output) ==
    LET hits == SelectSeq(output, LAMBDA l : l.kind = "origin")
    IN  [i \in 1 .. Len(hits) |-> hits[i].file]

\* Output of the placeholder pipeline: one "Entering" line and one
\* "file:<config>\tremote.origin.url" line per submodule.
SubmodulePipelineOutput(w) ==
    IF w.hasSubmodule
    THEN <<[kind |-> "entering", file |-> "sub"], [kind |-> "origin", file |-> "sub"]>>
    ELSE << >>

RECURSIVE replaceInPaths(_, _, _, _, _)
replaceInPaths(w, paths, i, p, b) ==
    IF i > Len(paths) THEN w
    ELSE replaceInPaths(replaceTokenPlaceholder(w, paths[i], p, b),
                        paths, i + 1, p, b)

submoduleAdded(w1, key, value) ==
    IF Raised(w1) \/ ~w1.hasSubmodule THEN w1
    ELSE [w1 EXCEPT !.cfg["sub"] = CfgAdd(@, key, value)]

submoduleSet(w1, key, value) ==
    IF Raised(w1) \/ ~w1.hasSubmodule THEN w1
    ELSE [w1 EXCEPT !.cfg["sub"] = CfgSet(@, key, value)]

RECURSIVE submoduleInsteadOf(_, _, _, _, _)
submoduleInsteadOf(w, values, i, p, b) ==
    IF i > Len(values) THEN w
    ELSE submoduleInsteadOf(
             submoduleAdded(
                 submoduleForeach(w,
                     "git config --local --add '" \o insteadOfKey \o "' '"
                       \o values[i] \o "'",
                     w.settings.nestedSubmodules, Oc(p, b + i)),
                 insteadOfKey, values[i]),
             values, i + 1, p, b)

\* The placeholder pipeline run in every submodule (slot b+4)
submodulePlaceholder(w, p, b) ==
    IF Raised(w) THEN w
    ELSE submoduleSet(
             submoduleForeach(w,
                 "sh -c \"git config --local '" \o tokenConfigKey
                   \o "' '" \o configureTokenValue(w)
                   \o "' && git config --local --show-origin --name-only --get-regexp remote.origin.url\"",
                 w.settings.nestedSubmodules,
                 Eff(Oc(p, b + 4),
                     ~w.hasSubmodule \/ CfgCount(w.cfg["sub"], tokenConfigKey) <= 1)),
             tokenConfigKey, configureTokenValue(w))

\* Replace the placeholder in every config path of the output (b+5, b+6)
submoduleReplace(w, p, b) ==
    IF Raised(w) THEN w
    ELSE replaceInPaths(w, ConfigPathsIn(SubmodulePipelineOutput(w)), 1, p, b + 4)

\* core.sshCommand or the insteadOf values in every submodule (b+7, b+8)
submoduleSshOrHttps(w, p, b) ==
    IF Raised(w) THEN w
    ELSE IF w.settings.sshKey
    THEN submoduleSet(
             submoduleForeach(w,
                 "git config --local '" \o SSH_COMMAND_KEY \o "' '"
                   \o w.sshCommand \o "'",
                 w.settings.nestedSubmodules, Oc(p, b + 7)),
             SSH_COMMAND_KEY, w.sshCommand)
    ELSE submoduleInsteadOf(w, insteadOfValues(w), 1, p, b + 6)

submodulePersist(w, p, b) ==
    IF Raised(w) \/ ~w.settings.persistCredentials THEN w
    ELSE submoduleSshOrHttps(
             submoduleReplace(submodulePlaceholder(w, p, b), p, b), p, b)

\* configureSubmoduleAuth (slots b+3 .. b+8)
configureSubmoduleAuth(w, p, b) ==
    submodulePersist(removeGitConfig(w, insteadOfKey, TRUE, p, b), p, b)

(***************************************************************************)
(* The auth helper driven directly: the same calls, with the same          *)
(* outcomes of every external step, on one helper per auth token.          *)
(***************************************************************************)
MaxCalls == 2

AuthSettings ==
    [authToken : Tokens, sshKey : BOOLEAN, sshStrict : {TRUE},
     persistCredentials : BOOLEAN, nestedSubmodules : {TRUE},
     workflowOrganizationId : BOOLEAN]

\* A config left behind by an earlier run on the same workspace
StaleLocalCfg ==
    <<[k |-> "remote.origin.url", v |-> "https://github.com/o/r"],
      [k |-> tokenConfigKey, v |-> "AUTHORIZATION: basic c3RhbGU="]>>

AuthFacts ==
    [runnerTemp : BOOLEAN, isWindows : BOOLEAN, hasRepo : {TRUE},
     hasSubmodule : BOOLEAN, realCfgExists : {TRUE},
     localCfg : {<<[k |-> "remote.origin.url", v |-> "https://github.com/o/r"]>>,
                 StaleLocalCfg},
     realCfg : {<<[k |-> "user.name", v |-> "worker"]>>},
     subCfg : {<<[k |-> "remote.origin.url", v |-> "https://github.com/o/sub"]>>}]

AuthHost(f) ==
    [runnerTemp |-> f.runnerTemp, isWindows |-> f.isWindows,
     hasRepo |-> f.hasRepo, hasSubmodule |-> f.hasSubmodule,
     realCfgExists |-> f.realCfgExists,
     cfg |-> [local |-> f.localCfg, temp |-> << >>,
              real  |-> f.realCfg,  sub  |-> f.subCfg]]

\* The organisation id only matters without an SSH key, Windows only with one.
AuthScenario(s, f) ==
    /\ s.authToken = "tokA"
    /\ (s.workflowOrganizationId => ~s.sshKey)
    /\ (f.isWindows => s.sshKey /\ f.runnerTemp /\ ~f.hasSubmodule)
    /\ (f.localCfg = StaleLocalCfg => f.runnerTemp)

AuthInit ==
    /\ rh = RetryBlank
    /\ sync = Idle
    /\ rf = Idle
    /\ \E s \in AuthSettings, f \in AuthFacts :
          /\ AuthScenario(s, f)
          /\ auth = [pc    |-> "ready",
                     calls |-> 0,
                     last  |-> [op |-> "none", raised |-> ""],
                     w     |-> [t \in Tokens |->
                                  createAuthHelper([s EXCEPT !.authToken = t],
                                                   AuthHost(f))]]

\* A call starts with an empty record of the processes it started.
Begin(w) == [w EXCEPT !.log = << >>, !.execLog = << >>]

\* The caller has the result of the call; the helper is idle again.
AuthReturn(op, results) ==
    [auth EXCEPT
       !.calls = @ + 1,
       !.last  = [op |-> op, raised |-> results["tokA"].raised],
       !.w     = [t \in Tokens |-> [Settle(results[t]) EXCEPT !.raised = ""]]]

AuthCallable == auth.pc = "ready" /\ auth.calls < MaxCalls

AuthConfigureAuth ==
    /\ AuthCallable
    /\ \E a \in FaultPoints(ConfigureAuthSlots) :
          auth' = AuthReturn("configureAuth",
                     [t \in Tokens |-> configureAuth(Begin(auth.w[t]), {a}, 0)])
    /\ UNCHANGED <<rh, sync, rf>>

AuthConfigureTempGlobalConfig ==
    /\ AuthCallable
    /\ \E a \in FaultPoints(3) :
          auth' = AuthReturn("configureTempGlobalConfig",
                     [t \in Tokens |-> configureTempGlobalConfig(Begin(auth.w[t]), {a}, 0)])
    /\ UNCHANGED <<rh, sync, rf>>

AuthConfigureGlobalAuth ==
    /\ AuthCallable
    /\ \E a \in FaultPoints(9), b \in {<<0, "fail">>, <<10, "fail">>, <<10, "spawn">>} :
          auth' = AuthReturn("configureGlobalAuth",
                     [t \in Tokens |-> configureGlobalAuth(Begin(auth.w[t]), {a, b}, 0)])
    /\ UNCHANGED <<rh, sync, rf>>

AuthConfigureSubmoduleAuth ==
    /\ AuthCallable
    /\ \E a \in FaultPoints(8) :
          auth' = AuthReturn("configureSubmoduleAuth",
                     [t \in Tokens |-> configureSubmoduleAuth(Begin(auth.w[t]), {a}, 0)])
    /\ UNCHANGED <<rh, sync, rf>>

AuthRemoveAuth ==
    /\ AuthCallable
    /\ \E a \in FaultPoints(RemoveAuthSlots),
          b \in {<<0, "fail">>, <<1, "fail">>, <<2, "fail">>} :
          auth' = AuthReturn("removeAuth",
                     [t \in Tokens |-> removeAuth(Begin(auth.w[t]), {a, b}, 0)])
    /\ UNCHANGED <<rh, sync, rf>>

AuthRemoveGlobalConfig ==
    /\ AuthCallable
    /\ \E a \in FaultPoints(1) :
          auth' = AuthReturn("removeGlobalConfig",
                     [t \in Tokens |-> removeGlobalConfig(Begin(auth.w[t]), {a}, 0)])
    /\ UNCHANGED <<rh, sync, rf>>

AuthNext ==
    \/ AuthConfigureAuth
    \/ AuthConfigureTempGlobalConfig
    \/ AuthConfigureGlobalAuth
    \/ AuthConfigureSubmoduleAuth
    \/ AuthRemoveAuth
    \/ AuthRemoveGlobalConfig

SpecAuth == AuthInit /\ [][AuthNext]_vars

(***************************************************************************)
(* configureAuth followed by removeAuth on one helper                      *)
(***************************************************************************)
\* A local config that already sets core.sshCommand
SshLocalCfg ==
    <<[k |-> "remote.origin.url", v |-> "https://github.com/o/r"],
      [k |-> SSH_COMMAND_KEY, v |-> "ssh -i /home/worker/.ssh/id_ed25519"]>>

RoundTripFacts ==
    [runnerTemp : {TRUE}, isWindows : {FALSE}, hasRepo : {TRUE},
     hasSubmodule : BOOLEAN, realCfgExists : {TRUE},
     localCfg : {<<[k |-> "remote.origin.url", v |-> "https://github.com/o/r"]>>,
                 StaleLocalCfg, SshLocalCfg},
     realCfg : {<<[k |-> "user.name", v |-> "worker"]>>},
     subCfg : {<<[k |-> "remote.origin.url", v |-> "https://github.com/o/sub"]>>}]

RoundTripInit ==
    /\ rh = RetryBlank
    /\ sync = Idle
    /\ rf = Idle
    /\ \E s \in AuthSettings, f \in RoundTripFacts :
          /\ s.authToken = "tokA"
          /\ (s.workflowOrganizationId => ~s.sshKey)
          /\ auth = [pc     |-> "ready",
                     before |-> f.localCfg,
                     clean  |-> TRUE,
                     raised |-> "",
                     w      |-> createAuthHelper(s, AuthHost(f))]

\* The call has settled; clean: no external step of the two calls failed
RoundTripStep(next, w1, a) ==
    [auth EXCEPT !.pc     = IF Raised(w1) THEN "failed" ELSE next,
                 !.clean  = @ /\ a = NoFault,
                 !.raised = w1.raised,
                 !.w      = [Settle(w1) EXCEPT !.raised = ""]]

RoundTripConfigureAuth ==
    /\ auth.pc = "ready"
    /\ \E a \in FaultPoints(ConfigureAuthSlots) :
          auth' = RoundTripStep("configured",
                                configureAuth(Begin(auth.w), {a}, 0), a)
    /\ UNCHANGED <<rh, sync, rf>>

RoundTripRemoveAuth ==
    /\ auth.pc = "configured"
    /\ \E a \in FaultPoints(RemoveAuthSlots) :
          auth' = RoundTripStep("removed", removeAuth(Begin(auth.w), {a}, 0), a)
    /\ UNCHANGED <<rh, sync, rf>>

RoundTripNext == RoundTripConfigureAuth \/ RoundTripRemoveAuth

SpecRoundTrip == RoundTripInit /\ [][RoundTripNext]_vars

(***************************************************************************)
(* The global-config operations of one helper, called in any order         *)
(***************************************************************************)
MaxGlobalCalls == 3

\* The helper after a call has settled
Settled1(w1) == [Settle(w1) EXCEPT !.raised = ""]

\* A global config in which the user keeps an extraheader of their own
UserRealCfg ==
    <<[k |-> "user.name", v |-> "worker"],
      [k |-> tokenConfigKey, v |-> "AUTHORIZATION: basic dXNlcg=="]>>

GlobalFacts ==
    [runnerTemp : {TRUE}, isWindows : {FALSE}, hasRepo : {TRUE},
     hasSubmodule : {FALSE}, realCfgExists : {TRUE},
     localCfg : {<<[k |-> "remote.origin.url", v |-> "https://github.com/o/r"]>>},
     realCfg : {<<[k |-> "user.name", v |-> "worker"]>>, UserRealCfg},
     subCfg : {<<[k |-> "remote.origin.url", v |-> "https://github.com/o/sub"]>>}]

GlobalInit ==
    /\ rh = RetryBlank
    /\ sync = Idle
    /\ rf = Idle
    /\ \E s \in AuthSettings, f \in GlobalFacts :
          /\ s.authToken = "tokA"
          /\ ~s.persistCredentials
          /\ (s.workflowOrganizationId => ~s.sshKey)
          /\ auth = [pc     |-> "ready",
                     hist   |-> << >>,
                     real   |-> f.realCfg,
                     before |-> createAuthHelper(s, AuthHost(f)),
                     out    |-> << >>,
                     setup  |-> "",
                     caught |-> "",
                     unset  |-> "ok",
                     clean  |-> TRUE,
                     w      |-> createAuthHelper(s, AuthHost(f))]

\* The call has settled. setup: the error of configureTempGlobalConfig
\* inside it, caught: the error the catch block received, unset: how the
\* catch block's own git command went, clean: no step of the call failed.
GlobalReturn(op, w1, setup, caught, unset, clean) ==
    [auth EXCEPT !.hist   = Append(@, [op |-> op, raised |-> w1.raised,
                                       clean |-> clean]),
                 !.before = auth.w,
                 !.out    = w1.out,
                 !.setup  = setup,
                 !.caught = caught,
                 !.unset  = unset,
                 !.clean  = clean,
                 !.w      = Settled1(w1)]

GlobalCallable == auth.pc = "ready" /\ Len(auth.hist) < MaxGlobalCalls

GlobalConfigureTempGlobalConfig ==
    /\ GlobalCallable
    /\ \E a \in FailPoints(3) :
          auth' = GlobalReturn("configureTempGlobalConfig",
                      configureTempGlobalConfig(Begin(auth.w), {a}, 0),
                      configureTempGlobalConfig(Begin(auth.w), {a}, 0).raised,
                      "", "ok", a = NoFault)
    /\ UNCHANGED <<rh, sync, rf>>

\* The plans of one configureGlobalAuth: one failing step before the catch
\* block, and the outcome of the catch block's unset
GlobalAuthPlans ==
    (FailPoints(9) \cup {<<4, "spawn">>})
      \X {NoFault, <<10, "fail">>, <<10, "spawn">>}

GlobalConfigureGlobalAuth ==
    /\ GlobalCallable
    /\ \E ab \in GlobalAuthPlans :
          auth' = GlobalReturn("configureGlobalAuth",
                      configureGlobalAuth(Begin(auth.w), {ab[1], ab[2]}, 0),
                      configureTempGlobalConfig(Begin(auth.w), {ab[1]}, 0).raised,
                      globalAuthTry(
                          configureTempGlobalConfig(Begin(auth.w), {ab[1]}, 0),
                          {ab[1]}, 0).raised,
                      Oc({ab[2]}, 10), ab[1] = NoFault)
    /\ UNCHANGED <<rh, sync, rf>>

GlobalRemoveGlobalConfig ==
    /\ GlobalCallable
    /\ \E a \in FailPoints(1) :
          auth' = GlobalReturn("removeGlobalConfig",
                      removeGlobalConfig(Begin(auth.w), {a}, 0), "", "", "ok",
                      a = NoFault)
    /\ UNCHANGED <<rh, sync, rf>>

GlobalNext ==
    \/ GlobalConfigureTempGlobalConfig
    \/ GlobalConfigureGlobalAuth
    \/ GlobalRemoveGlobalConfig

SpecGlobal == GlobalInit /\ [][GlobalNext]_vars

(***************************************************************************)
(* Teardown called once and then again on one helper, with or without a    *)
(* configuration before it                                                 *)
(***************************************************************************)
\* A local config holding two values of the token key
DoubleLocalCfg ==
    Append(StaleLocalCfg,
           [k |-> tokenConfigKey, v |-> "AUTHORIZATION: basic b2xkZXI="])

\* A submodule config left behind by an earlier run
StaleSubCfg ==
    <<[k |-> "remote.origin.url", v |-> "https://github.com/o/sub"],
      [k |-> tokenConfigKey, v |-> "AUTHORIZATION: basic c3RhbGU="]>>

TeardownFacts ==
    [runnerTemp : {TRUE}, isWindows : {FALSE}, hasRepo : {TRUE},
     hasSubmodule : BOOLEAN, realCfgExists : {TRUE},
     localCfg : {<<[k |-> "remote.origin.url", v |-> "https://github.com/o/r"]>>,
                 StaleLocalCfg, SshLocalCfg, DoubleLocalCfg},
     realCfg : {<<[k |-> "user.name", v |-> "worker"]>>},
     subCfg : {<<[k |-> "remote.origin.url", v |-> "https://github.com/o/sub"]>>,
               StaleSubCfg}]

\* What teardown is about: the files under RUNNER_TEMP, the config files
\* and the environment overlay of the command manager
Artifacts(w) == [files |-> w.files, cfg |-> w.cfg, gitEnv |-> w.gitEnv]

TeardownInit ==
    /\ rh = RetryBlank
    /\ sync = Idle
    /\ rf = Idle
    /\ \E s \in AuthSettings, f \in TeardownFacts :
          /\ s.authToken = "tokA"
          /\ (s.workflowOrganizationId => ~s.sshKey)
          /\ (f.subCfg = StaleSubCfg => f.hasSubmodule)
          /\ auth = [pc     |-> "ready",
                     setup  |-> "none",
                     op     |-> "none",
                     start  |-> Artifacts(createAuthHelper(s, AuthHost(f))),
                     once   |-> Artifacts(createAuthHelper(s, AuthHost(f))),
                     clean  |-> TRUE,
                     raised |-> "",
                     w      |-> createAuthHelper(s, AuthHost(f))]

TeardownConfigured(op, w1) ==
    [auth EXCEPT !.pc = "configured", !.setup = op, !.raised = w1.raised,
                 !.w = Settled1(w1)]

\* configureAuth() before the teardown
TeardownConfigureAuth ==
    /\ auth.pc = "ready"
    /\ \E a \in FailPoints(ConfigureAuthSlots) :
          auth' = TeardownConfigured("configureAuth",
                                     configureAuth(Begin(auth.w), {a}, 0))
    /\ UNCHANGED <<rh, sync, rf>>

\* configureGlobalAuth() before the teardown
TeardownConfigureGlobalAuth ==
    /\ auth.pc = "ready"
    /\ \E a \in FailPoints(10) :
          auth' = TeardownConfigured("configureGlobalAuth",
                                     configureGlobalAuth(Begin(auth.w), {a}, 0))
    /\ UNCHANGED <<rh, sync, rf>>

\* The first call of a teardown operation
TeardownFirst(op, w1, a) ==
    [auth EXCEPT !.pc = "once", !.op = op, !.start = Artifacts(auth.w),
                 !.clean = (a = NoFault), !.raised = w1.raised,
                 !.w = Settled1(w1)]

\* The same operation called again
TeardownAgain(w1) ==
    [auth EXCEPT !.pc = "twice", !.once = Artifacts(auth.w),
                 !.raised = w1.raised, !.w = Settled1(w1)]

TeardownRemoveAuth ==
    /\ auth.pc \in {"ready", "configured"}
    /\ \E a \in FaultPoints(RemoveAuthSlots) :
          auth' = TeardownFirst("removeAuth",
                                removeAuth(Begin(auth.w), {a}, 0), a)
    /\ UNCHANGED <<rh, sync, rf>>

TeardownRemoveAuthAgain ==
    /\ auth.pc = "once"
    /\ auth.op = "removeAuth"
    /\ \E a \in FaultPoints(RemoveAuthSlots) :
          auth' = TeardownAgain(removeAuth(Begin(auth.w), {a}, 0))
    /\ UNCHANGED <<rh, sync, rf>>

TeardownRemoveGlobalConfig ==
    /\ auth.pc \in {"ready", "configured"}
    /\ \E a \in FaultPoints(1) :
          auth' = TeardownFirst("removeGlobalConfig",
                                removeGlobalConfig(Begin(auth.w), {a}, 0), a)
    /\ UNCHANGED <<rh, sync, rf>>

TeardownRemoveGlobalConfigAgain ==
    /\ auth.pc = "once"
    /\ auth.op = "removeGlobalConfig"
    /\ \E a \in FaultPoints(1) :
          auth' = TeardownAgain(removeGlobalConfig(Begin(auth.w), {a}, 0))
    /\ UNCHANGED <<rh, sync, rf>>

TeardownNext ==
    \/ TeardownConfigureAuth
    \/ TeardownConfigureGlobalAuth
    \/ TeardownRemoveAuth
    \/ TeardownRemoveAuthAgain
    \/ TeardownRemoveGlobalConfig
    \/ TeardownRemoveGlobalConfigAgain

SpecTeardown == TeardownInit /\ [][TeardownNext]_vars

(***************************************************************************)
(* The workspace: a tree of paths, each with an inode and a kind           *)
(***************************************************************************)
RepositoryPath == <<"work", "repo">>

\* path.join(path, name)
Join(path, name) == Append(path, name)

\* q is path itself or lies below it
Under(path, q) == Len(q) >= Len(path) /\ SubSeq(q, 1, Len(path)) = path

Dir(id) == [id |-> id, kind |-> "dir"]

File(id) == [id |-> id, kind |-> "file"]

directoryExistsSync(fs, path) == path \in DOMAIN fs /\ fs[path].kind = "dir"

fileExistsSync(fs, path) == path \in DOMAIN fs /\ fs[path].kind # "dir"

\* fsp.rm(path, {force: true, recursive: true})
FsRemove(fs, path) == [q \in {r \in DOMAIN fs : ~Under(path, r)} |-> fs[q]]

\* fsp.mkdir(path, {recursive: true}) of a missing directory
FsMkdir(fs, path, id) ==
    [q \in DOMAIN fs \cup {path} |-> IF q = path THEN Dir(id) ELSE fs[q]]

FsWriteFile(fs, path, id) ==
    [q \in DOMAIN fs \cup {path} |-> IF q = path THEN File(id) ELSE fs[q]]

EntryOrder == <<".git", "README", "src">>

\* fs.promises.readdir(path)
readdir(fs, path) == SelectSeq(EntryOrder, LAMBDA n : Join(path, n) \in DOMAIN fs)

GitDir(repositoryPath) == Join(repositoryPath, ".git")

TreeAbsent == (<<"work">> :> Dir(1))

TreeFile == TreeAbsent @@ (RepositoryPath :> File(2))

TreeEmpty == TreeAbsent @@ (RepositoryPath :> Dir(2))

TreeNoGit == TreeEmpty @@ (Join(RepositoryPath, "README") :> File(3))

TreeCheckout ==
    TreeNoGit
      @@ (GitDir(RepositoryPath) :> Dir(4))
      @@ (Join(GitDir(RepositoryPath), "index.lock") :> File(5))
      @@ (Join(RepositoryPath, "src") :> Dir(6))
      @@ (Join(Join(RepositoryPath, "src"), "a.ts") :> File(7))

Trees ==
    [absent |-> TreeAbsent, file |-> TreeFile, empty |-> TreeEmpty,
     nogit |-> TreeNoGit, checkout |-> TreeCheckout]

\* rmRF of a workspace path: raises when rm fails
rmRFTree(w, path, oc) ==
    IF Raised(w) THEN w
    ELSE IF oc # "ok"
    THEN [w EXCEPT !.deleted = Append(@, path),
                   !.raised = "File was unable to be removed"]
    ELSE [w EXCEPT
            !.deleted = Append(@, path),
            !.fs = FsRemove(@, path),
            !.hasRepo = directoryExistsSync(FsRemove(w.fs, path),
                                            GitDir(RepositoryPath)),
            !.cfg["local"] =
                IF directoryExistsSync(FsRemove(w.fs, path), GitDir(RepositoryPath))
                THEN @ ELSE << >>]

\* mkdirP of a missing directory
mkdirP(w, path, oc) ==
    IF Raised(w) THEN w
    ELSE IF oc # "ok" THEN Throw(w, "mkdir failed")
    ELSE [w EXCEPT !.fs = FsMkdir(@, path, w.inodes + 1), !.inodes = @ + 1]

(***************************************************************************)
(* Reference names: sequences of "/"-separated segments                    *)
(***************************************************************************)
RECURSIVE JoinSlash(_)
JoinSlash(segments) ==
    IF segments = << >> THEN ""
    ELSE IF Len(segments) = 1 THEN segments[1]
    ELSE segments[1] \o "/" \o JoinSlash(Tail(segments))

\* toUpperCase on one segment
Upper(segment) ==
    CASE segment = "foo"  -> "FOO"
      [] segment = "bar"  -> "BAR"
      [] segment = "main" -> "MAIN"
      [] segment = "refs" -> "REFS"
      [] segment = "heads" -> "HEADS"
      [] segment = "tags" -> "TAGS"
      [] segment = "v1" -> "V1"
      [] segment = "origin" -> "ORIGIN"
      [] segment = "pull" -> "PULL"
      [] segment = "merge" -> "MERGE"
      [] segment = "Refs" -> "REFS"
      [] segment = "Heads" -> "HEADS"
      [] OTHER -> segment

toUpperCase(segments) == [i \in 1 .. Len(segments) |-> Upper(segments[i])]

\* a.startsWith(b + '/')
StartsWithSlash(a, b) == Len(a) > Len(b) /\ SubSeq(a, 1, Len(b)) = b

\* a.slice(n segments and their slashes)
Slice(a, n) == SubSeq(a, n + 1, Len(a))

(***************************************************************************)
(* GitCommandManager: the operations on an existing checkout               *)
(***************************************************************************)
\* The named operation raised or returned a failure result
Failure(w1, op) == [w1 EXCEPT !.failed = @ \cup {op}]

fetchUrlOf(w1) ==
    IF Raised(w1) THEN Failure(w1, "tryGetFetchUrl")
    ELSE IF w1.exit # 0 \/ Len(w1.originUrl) # 1
    THEN Failure([w1 EXCEPT !.out = <<"">>], "tryGetFetchUrl")
    ELSE [w1 EXCEPT !.out = w1.originUrl]

\* tryGetFetchUrl: '' on a non-zero exit or a multi-line output
tryGetFetchUrl(w, oc) ==
    IF Raised(w) THEN w
    ELSE fetchUrlOf(
             execGit(w, <<"config", "--local", "--get", "remote.origin.url">>,
                     TRUE, Eff(oc, w.originUrl # << >>)))

detachedOf(w1) ==
    IF Raised(w1) THEN Failure(w1, "isDetached")
    ELSE [w1 EXCEPT !.ret = (w1.exit # 0 \/ w1.detached)]

\* isDetached: !stdout.trim().startsWith('refs/heads/')
isDetached(w, oc) ==
    IF Raised(w) THEN w
    ELSE detachedOf(
             execGit(w, <<"rev-parse", "--symbolic-full-name", "--verify",
                          "--quiet", "HEAD">>, TRUE, oc))

detachedNow(w1) ==
    IF Raised(w1) THEN Failure(w1, "checkoutDetach")
    ELSE [w1 EXCEPT !.detached = TRUE]

checkoutDetach(w, oc) ==
    IF Raised(w) THEN w
    ELSE detachedNow(execGit(w, <<"checkout", "--detach">>, FALSE, oc))

\* refs/heads/x -> x, refs/remotes/origin/x -> origin/x
ShortName(branch) ==
    IF StartsWithSlash(branch, <<"refs", "heads">>) THEN Slice(branch, 2)
    ELSE IF StartsWithSlash(branch, <<"refs", "remotes">>) THEN Slice(branch, 2)
    ELSE branch

branchesOf(w1, remote) ==
    IF Raised(w1) THEN Failure(w1, "branchList")
    ELSE [w1 EXCEPT !.out =
             IF remote
             THEN [i \in 1 .. Len(w1.remotes) |-> ShortName(w1.remotes[i])]
             ELSE [i \in 1 .. Len(w1.branches) |-> ShortName(w1.branches[i])]]

\* branchList(remote): rev-parse --symbolic-full-name --branches|--remotes=origin
branchList(w, remote, oc) ==
    IF Raised(w) THEN w
    ELSE branchesOf(
             execGit(w, <<"rev-parse", "--symbolic-full-name",
                          IF remote THEN "--remotes=origin" ELSE "--branches">>,
                     FALSE, oc),
             remote)

branchDeleted(w1, remote, branch) ==
    IF Raised(w1) THEN Failure(w1, "branchDelete")
    ELSE IF remote
    THEN [w1 EXCEPT !.remotes = SelectSeq(@, LAMBDA r : ShortName(r) # branch)]
    ELSE [w1 EXCEPT !.branches = SelectSeq(@, LAMBDA r : ShortName(r) # branch)]

\* branchDelete(remote, branch): branch --delete --force [--remote] <branch>
branchDelete(w, remote, branch, oc) ==
    IF Raised(w) THEN w
    ELSE branchDeleted(
             execGit(w, <<"branch", "--delete", "--force">>
                          \o (IF remote THEN <<"--remote">> ELSE << >>)
                          \o <<JoinSlash(branch)>>,
                     FALSE, oc),
             remote, branch)

exitCodeZeroOf(w1, op) ==
    IF Raised(w1) \/ w1.exit # 0
    THEN Failure([w1 EXCEPT !.ret = FALSE], op)
    ELSE [w1 EXCEPT !.ret = TRUE]

submoduleStatus(w, oc) ==
    IF Raised(w) THEN w
    ELSE exitCodeZeroOf(
             execGit(w, <<"submodule", "status">>, TRUE, Eff(oc, w.submodulesOk)),
             "submoduleStatus")

cleaned(w1) == IF Raised(w1) \/ ~w1.ret THEN w1 ELSE [w1 EXCEPT !.untracked = FALSE]

tryClean(w, oc) ==
    IF Raised(w) THEN w
    ELSE cleaned(exitCodeZeroOf(execGit(w, <<"clean", "-ffdx">>, TRUE, oc),
                                "tryClean"))

resetDone(w1) == IF Raised(w1) \/ ~w1.ret THEN w1 ELSE [w1 EXCEPT !.modified = FALSE]

tryReset(w, oc) ==
    IF Raised(w) THEN w
    ELSE resetDone(exitCodeZeroOf(execGit(w, <<"reset", "--hard", "HEAD">>, TRUE, oc),
                                  "tryReset"))

(***************************************************************************)
(* prepareExistingDirectory (git-directory-helper.ts)                      *)
(***************************************************************************)
\* repositoryUrl !== (await git.tryGetFetchUrl())
fetchUrlMismatchIgnored(repositoryUrl, fetchUrl) == FALSE

fetchUrlMismatch(repositoryUrl, fetchUrl) == repositoryUrl # fetchUrl

compareFetchUrl(w1, repositoryUrl) ==
    IF Raised(w1) THEN w1
    ELSE [w1 EXCEPT !.urlSeen = w1.out,
                    !.remove = fetchUrlMismatch(repositoryUrl, w1.out[1])]

\* The decision before anything is touched (slot b+1)
decideRemoval(w, git, repositoryPath, repositoryUrl, oc) ==
    IF ~git \/ ~directoryExistsSync(w.fs, GitDir(repositoryPath))
    THEN [w EXCEPT !.remove = TRUE]
    ELSE compareFetchUrl(tryGetFetchUrl(w, oc), repositoryUrl)

\* try { await rmRF(lockPath) } catch { debug }
rmRFLock(w, path, oc) ==
    IF Raised(w) \/ oc # "ok" THEN w ELSE rmRFTree(w, path, oc)

\* index.lock and shallow.lock (slots b+2, b+3)
removeLocks(w, repositoryPath, p, b) ==
    rmRFLock(rmRFLock(w, Join(GitDir(repositoryPath), "index.lock"), Oc(p, b + 2)),
             Join(GitDir(repositoryPath), "shallow.lock"), Oc(p, b + 3))

detachIfAttached(w1, oc) ==
    IF Raised(w1) \/ w1.ret THEN w1 ELSE checkoutDetach(w1, oc)

\* Checkout detached HEAD (slots b+4, b+5)
detachHead(w, p, b) == detachIfAttached(isDetached(w, Oc(p, b + 4)), Oc(p, b + 5))

RECURSIVE deleteBranches(_, _, _, _, _)
deleteBranches(w, branches, i, p, b) ==
    IF Raised(w) \/ i > Len(branches) THEN w
    ELSE deleteBranches(branchDelete(w, FALSE, branches[i], Oc(p, b + i)),
                        branches, i + 1, p, b)

deleteListed(w1, p, b) ==
    IF Raised(w1) THEN w1 ELSE deleteBranches(w1, w1.out, 1, p, b)

\* Remove all refs/heads/* (slots b+6 .. b+8)
removeLocalBranches(w, p, b) ==
    deleteListed(branchList(w, FALSE, Oc(p, b + 6)), p, b + 6)

\* reference.startsWith('refs/') ? reference : `refs/heads/${reference}`
QualifiedReference(reference) ==
    IF StartsWithSlash(reference, <<"refs">>) THEN reference
    ELSE <<"refs", "heads">> \o reference

\* The names are compared as prefixes, without the slash.
ConflictsWithoutSlash(upperName1, upperName2) ==
    \/ (Len(upperName1) >= Len(upperName2)
          /\ SubSeq(upperName1, 1, Len(upperName2)) = upperName2)
    \/ (Len(upperName2) >= Len(upperName1)
          /\ SubSeq(upperName2, 1, Len(upperName1)) = upperName1)

\* upperName1.startsWith(upperName2Slash) || upperName2.startsWith(upperName1Slash)
Conflicts(upperName1, upperName2) ==
    \/ StartsWithSlash(upperName1, upperName2)
    \/ StartsWithSlash(upperName2, upperName1)

RECURSIVE deleteConflicting(_, _, _, _, _, _)
deleteConflicting(w, branches, i, upperName1, p, b) ==
    IF Raised(w) \/ i > Len(branches) THEN w
    ELSE deleteConflicting(
             IF Conflicts(upperName1, toUpperCase(Slice(branches[i], 1)))
             THEN branchDelete(w, TRUE, branches[i], Oc(p, b + i))
             ELSE w,
             branches, i + 1, upperName1, p, b)

deleteConflictingListed(w1, upperName1, p, b) ==
    IF Raised(w1) THEN w1
    ELSE deleteConflicting(w1, w1.out, 1, upperName1, p, b)

\* The pass runs for every ref, not only for refs/heads/*.
removeConflictingRemotesAnyRef(w, reference, p, b) ==
    IF Raised(w) \/ reference = << >> THEN w
    ELSE deleteConflictingListed(
             branchList(w, TRUE, Oc(p, b + 9)),
             Slice(toUpperCase(QualifiedReference(reference)), 2),
             p, b + 9)

\* Remove any conflicting refs/remotes/origin/* (slots b+9 .. b+11)
removeConflictingRemotes(w, reference, p, b) ==
    IF Raised(w) \/ reference = << >>
         \/ ~StartsWithSlash(QualifiedReference(reference), <<"refs", "heads">>)
    THEN w
    ELSE deleteConflictingListed(
             branchList(w, TRUE, Oc(p, b + 9)),
             Slice(toUpperCase(QualifiedReference(reference)), 2),
             p, b + 9)

removeUnless(w1) ==
    IF Raised(w1) \/ w1.ret THEN w1 ELSE [w1 EXCEPT !.remove = TRUE]

\* Bad submodules mark the contents for removal (slot b+12)
checkSubmodules(w, p, b) == removeUnless(submoduleStatus(w, Oc(p, b + 12)))

resetAfterClean(w1, oc) ==
    IF Raised(w1) THEN w1
    ELSE IF ~w1.ret THEN [w1 EXCEPT !.remove = TRUE]
    ELSE removeUnless(tryReset(w1, oc))

\* if (clean) { tryClean, else tryReset } (slots b+13, b+14)
cleanAndReset(w, clean, p, b) ==
    IF Raised(w) \/ ~clean THEN w
    ELSE resetAfterClean(tryClean(w, Oc(p, b + 13)), Oc(p, b + 14))

\* catch { warn; remove = true }
recreateOnError(w1) ==
    IF Raised(w1) THEN [w1 EXCEPT !.raised = "", !.remove = TRUE] ELSE w1

\* The else branch: locks, then the try block
reuseExisting(w, repositoryPath, clean, reference, p, b) ==
    IF Raised(w) \/ w.remove THEN w
    ELSE recreateOnError(
             cleanAndReset(
                 checkSubmodules(
                     removeConflictingRemotes(
                         removeLocalBranches(
                             detachHead(removeLocks(w, repositoryPath, p, b), p, b),
                             p, b),
                         reference, p, b),
                     p, b),
                 clean, p, b))

\* path.join(repositoryPath, file) for every file of readdir(repositoryPath)
removalTargetsWholeDirectory(repositoryPath, files) == <<repositoryPath>>

removalTargets(repositoryPath, files) ==
    [i \in 1 .. Len(files) |-> Join(repositoryPath, files[i])]

RECURSIVE rmRFEach(_, _, _, _, _)
rmRFEach(w, paths, i, p, b) ==
    IF Raised(w) \/ i > Len(paths) THEN w
    ELSE rmRFEach(rmRFTree(w, paths[i], Oc(p, b + i)), paths, i + 1, p, b)

\* if (remove) delete the contents of the directory (slots b+15 .. b+18)
deleteContents(w, repositoryPath, p, b) ==
    IF Raised(w) \/ ~w.remove THEN w
    ELSE IF Oc(p, b + 15) # "ok" THEN Throw(w, "readdir failed")
    ELSE rmRFEach(w, removalTargets(repositoryPath, readdir(w.fs, repositoryPath)),
                  1, p, b + 15)

prepareExistingDirectory(w, git, repositoryPath, repositoryUrl, clean, reference, p, b) ==
    deleteContents(
        reuseExisting(
            decideRemoval([w EXCEPT !.remove = FALSE, !.deleted = << >>],
                          git, repositoryPath, repositoryUrl, Oc(p, b + 1)),
            repositoryPath, clean, reference, p, b),
        repositoryPath, p, b)

PrepareSlots == 15 + Len(EntryOrder)

\* A deletion that fails after an earlier step has gone wrong
RemovalFaults == {<<0, "fail">>} \cup ((15 .. PrepareSlots) \X {"fail"})

(***************************************************************************)
(* GitCommandManager: probes of a fetched repository                       *)
(***************************************************************************)
\* The SHA a remote-tracking branch origin/<name> or a tag <name> points at,
\* "" when there is no such ref
ShaOf(refs, name) == IF name \in DOMAIN refs THEN refs[name] ELSE ""

\* What `git rev-parse <reference>` resolves: ref names are case sensitive
Resolve(w, reference) ==
    IF StartsWithSlash(reference, <<"refs", "remotes", "origin">>)
    THEN ShaOf(w.tracking, Slice(reference, 3))
    ELSE IF StartsWithSlash(reference, <<"refs", "tags">>)
    THEN ShaOf(w.tags, Slice(reference, 2))
    ELSE ""

\* The objects of the repository: everything a ref points at
Objects(w) ==
    ({w.tracking[n] : n \in DOMAIN w.tracking}
       \cup {w.tags[n] : n \in DOMAIN w.tags}) \ {""}

\* return !!output.stdout.trim()
existsOf(w1, found) == IF Raised(w1) THEN w1 ELSE [w1 EXCEPT !.ret = found]

\* branchExists(remote, pattern): branch --list [--remote] <pattern>; the
\* repository has no local branch at this point
branchExists(w, remote, pattern, oc) ==
    IF Raised(w) THEN w
    ELSE existsOf(
             execGit(w, <<"branch", "--list">>
                          \o (IF remote THEN <<"--remote">> ELSE << >>)
                          \o <<JoinSlash(pattern)>>,
                     FALSE, oc),
             /\ remote
             /\ StartsWithSlash(pattern, <<"origin">>)
             /\ ShaOf(w.tracking, Slice(pattern, 1)) # "")

\* tagExists(pattern): tag --list <pattern>
tagExists(w, pattern, oc) ==
    IF Raised(w) THEN w
    ELSE existsOf(execGit(w, <<"tag", "--list", JoinSlash(pattern)>>, FALSE, oc),
                  ShaOf(w.tags, pattern) # "")

\* return output.stdout.trim()
shaOut(w1, sha) == IF Raised(w1) THEN w1 ELSE [w1 EXCEPT !.sha = sha]

\* revParse(reference): rev-parse <reference>; git exits non-zero when the
\* reference does not resolve, and execGit then raises
revParse(w, reference, oc) ==
    IF Raised(w) THEN w
    ELSE shaOut(execGit(w, <<"rev-parse", JoinSlash(reference)>>, FALSE,
                        Eff(oc, Resolve(w, reference) # "")),
                Resolve(w, reference))

\* return output.exitCode === 0
exitZero(w1) == IF Raised(w1) THEN w1 ELSE [w1 EXCEPT !.ret = (w1.exit = 0)]

\* shaExists(sha): rev-parse --verify --quiet <sha>^{object}, any exit code
shaExists(w, sha, oc) ==
    IF Raised(w) THEN w
    ELSE exitZero(execGit(w, <<"rev-parse", "--verify", "--quiet",
                               sha \o "^{object}">>,
                          TRUE, Eff(oc, sha \in Objects(w))))

(***************************************************************************)
(* ref-helper                                                              *)
(***************************************************************************)
tagsReferenceSpec == "+refs/tags/*:refs/tags/*"

\* upperReference.startsWith('<PREFIX>/') for a prefix of whole segments
UpperStartsWith(reference, prefix) ==
    /\ Len(reference) > Len(prefix)
    /\ toUpperCase(SubSeq(reference, 1, Len(prefix))) = prefix

NoCheckoutInfo == [ref |-> "", startPoint |-> ""]

\* result.ref = ...; result.startPoint = ... ("" when it is left undefined)
CheckoutInfo(w, ref, startPoint) ==
    IF Raised(w) THEN w
    ELSE [w EXCEPT !.info = [ref |-> ref, startPoint |-> startPoint]]

NotFound(reference) ==
    "A branch or tag with the name '" \o JoinSlash(reference)
        \o "' could not be found"

\* else if (await git.tagExists(reference)) ... else throw
tagOrError(w2, reference) ==
    IF Raised(w2) THEN w2
    ELSE IF w2.ret
    THEN CheckoutInfo(w2, "refs/tags/" \o JoinSlash(reference), "")
    ELSE Throw(w2, NotFound(reference))

\* if (await git.branchExists(true, `origin/${reference}`)) ...
branchOrTag(w1, reference, oc) ==
    IF Raised(w1) THEN w1
    ELSE IF w1.ret
    THEN CheckoutInfo(w1, JoinSlash(reference),
                      "refs/remotes/origin/" \o JoinSlash(reference))
    ELSE tagOrError(tagExists(w1, reference, oc), reference)

branchOrError(w2, reference) ==
    IF Raised(w2) THEN w2
    ELSE IF w2.ret
    THEN CheckoutInfo(w2, JoinSlash(reference),
                      "refs/remotes/origin/" \o JoinSlash(reference))
    ELSE Throw(w2, NotFound(reference))

tagOrBranch(w1, reference, oc) ==
    IF Raised(w1) THEN w1
    ELSE IF w1.ret
    THEN CheckoutInfo(w1, "refs/tags/" \o JoinSlash(reference), "")
    ELSE branchOrError(branchExists(w1, TRUE, <<"origin">> \o reference, oc),
                       reference)

\* The tag is probed first and wins over the branch.
unqualifiedTagFirst(w, reference, p) ==
    tagOrBranch(tagExists(w, reference, Oc(p, 1)), reference, Oc(p, 2))

\* Unqualified ref, check for a matching branch or tag (slots 1, 2)
unqualified(w, reference, p) ==
    branchOrTag(branchExists(w, TRUE, <<"origin">> \o reference, Oc(p, 1)),
                reference, Oc(p, 2))

\* getCheckoutInfo without the refs/pull/ branch: a pull ref is returned
\* verbatim by the refs/ branch
getCheckoutInfoPullVerbatim(w, git, reference, commit, p) ==
    IF ~git THEN Throw(w, "Arg git cannot be empty")
    ELSE IF reference = << >> /\ commit = ""
    THEN Throw(w, "Args ref and commit cannot both be empty")
    ELSE IF reference = << >> THEN CheckoutInfo(w, commit, "")
    ELSE IF UpperStartsWith(reference, <<"REFS", "HEADS">>)
    THEN CheckoutInfo(w, JoinSlash(Slice(reference, 2)),
                      "refs/remotes/origin/" \o JoinSlash(Slice(reference, 2)))
    ELSE IF UpperStartsWith(reference, <<"REFS">>)
    THEN CheckoutInfo(w, JoinSlash(reference), "")
    ELSE unqualified(w, reference, p)

\* getCheckoutInfo(git, reference, commit)
getCheckoutInfo(w, git, reference, commit, p) ==
    IF ~git THEN Throw(w, "Arg git cannot be empty")
    ELSE IF reference = << >> /\ commit = ""
    THEN Throw(w, "Args ref and commit cannot both be empty")
    ELSE IF reference = << >> THEN CheckoutInfo(w, commit, "")
    ELSE IF UpperStartsWith(reference, <<"REFS", "HEADS">>)
    THEN CheckoutInfo(w, JoinSlash(Slice(reference, 2)),
                      "refs/remotes/origin/" \o JoinSlash(Slice(reference, 2)))
    ELSE IF UpperStartsWith(reference, <<"REFS", "PULL">>)
    THEN CheckoutInfo(w, "refs/remotes/pull/" \o JoinSlash(Slice(reference, 2)), "")
    ELSE IF UpperStartsWith(reference, <<"REFS">>)
    THEN CheckoutInfo(w, JoinSlash(reference), "")
    ELSE unqualified(w, reference, p)

\* The pull-request ref is not fetched.
getReferenceSpecForAllHistoryHeadsAndTags(reference, commit) ==
    <<"+refs/heads/*:refs/remotes/origin/*", tagsReferenceSpec>>

\* getReferenceSpecForAllHistory(reference, commit)
getReferenceSpecForAllHistory(reference, commit) ==
    <<"+refs/heads/*:refs/remotes/origin/*", tagsReferenceSpec>>
      \o (IF reference # << >> /\ UpperStartsWith(reference, <<"REFS", "PULL">>)
          THEN <<"+" \o (IF commit # "" THEN commit ELSE JoinSlash(reference))
                     \o ":refs/remotes/pull/" \o JoinSlash(Slice(reference, 2))>>
          ELSE << >>)

\* Every ref is fetched to a branch of origin.
getReferenceSpecAlwaysBranch(reference, commit) ==
    IF reference = << >> /\ commit = "" THEN << >>
    ELSE <<"+" \o (IF commit # "" THEN commit ELSE JoinSlash(reference))
               \o ":refs/remotes/origin/"
               \o JoinSlash(IF UpperStartsWith(reference, <<"REFS">>)
                            THEN Slice(reference, 2) ELSE reference)>>

\* getReferenceSpec(reference, commit); << >> stands for the exception
getReferenceSpec(reference, commit) ==
    IF reference = << >> /\ commit = "" THEN << >>
    ELSE IF commit # ""
    THEN (IF UpperStartsWith(reference, <<"REFS", "HEADS">>)
          THEN <<"+" \o commit \o ":refs/remotes/origin/"
                     \o JoinSlash(Slice(reference, 2))>>
          ELSE IF UpperStartsWith(reference, <<"REFS", "PULL">>)
          THEN <<"+" \o commit \o ":refs/remotes/pull/"
                     \o JoinSlash(Slice(reference, 2))>>
          ELSE IF UpperStartsWith(reference, <<"REFS", "TAGS">>)
          THEN <<"+" \o commit \o ":" \o JoinSlash(reference)>>
          ELSE <<commit>>)
    ELSE IF ~UpperStartsWith(reference, <<"REFS">>)
    THEN <<"+refs/heads/" \o JoinSlash(reference) \o "*:refs/remotes/origin/"
               \o JoinSlash(reference) \o "*",
           "+refs/tags/" \o JoinSlash(reference) \o "*:refs/tags/"
               \o JoinSlash(reference) \o "*">>
    ELSE IF UpperStartsWith(reference, <<"REFS", "HEADS">>)
    THEN <<"+" \o JoinSlash(reference) \o ":refs/remotes/origin/"
               \o JoinSlash(Slice(reference, 2))>>
    ELSE IF UpperStartsWith(reference, <<"REFS", "PULL">>)
    THEN <<"+" \o JoinSlash(reference) \o ":refs/remotes/pull/"
               \o JoinSlash(Slice(reference, 2))>>
    ELSE <<"+" \o JoinSlash(reference) \o ":" \o JoinSlash(reference)>>

\* return branchExists && commit === commitSHA
matches(w2, commit) ==
    IF Raised(w2) THEN w2 ELSE [w2 EXCEPT !.ret = (w2.ret /\ commit = w2.sha)]

\* refs/heads/: branchExists, then revParse, both awaited (slots 1, 2)
testBranch(w, branch, commit, p) ==
    matches(revParse(branchExists(w, TRUE, <<"origin">> \o branch, Oc(p, 1)),
                     <<"refs", "remotes", "origin">> \o branch, Oc(p, 2)),
            commit)

\* refs/tags/: tagExists, then revParse, both awaited (slots 1, 2)
testTag(w, reference, commit, p) ==
    matches(revParse(tagExists(w, Slice(reference, 2), Oc(p, 1)),
                     reference, Oc(p, 2)),
            commit)

\* testReference(git, reference, commit)
testReference(w, git, reference, commit, p) ==
    IF ~git THEN Throw(w, "Arg git cannot be empty")
    ELSE IF reference = << >> /\ commit = ""
    THEN Throw(w, "Args ref and commit cannot both be empty")
    ELSE IF commit = "" THEN [w EXCEPT !.ret = TRUE]
    ELSE IF reference = << >> THEN shaExists(w, commit, Oc(p, 1))
    ELSE IF UpperStartsWith(reference, <<"REFS", "HEADS">>)
    THEN testBranch(w, Slice(reference, 2), commit, p)
    ELSE IF UpperStartsWith(reference, <<"REFS", "PULL">>)
    THEN [w EXCEPT !.ret = TRUE]
    ELSE IF UpperStartsWith(reference, <<"REFS", "TAGS">>)
    THEN testTag(w, reference, commit, p)
    ELSE [w EXCEPT !.ret = TRUE]

(***************************************************************************)
(* The ref helper called on a repository after a fetch                     *)
(***************************************************************************)
Shas == {"c1", "c2"}

RefNames == {<<"foo">>, <<"v1">>}

RefInputs ==
    {<< >>, <<"foo">>, <<"v1">>, <<"main">>, <<"refs", "heads", "foo">>,
     <<"Refs", "Heads", "foo">>, <<"refs", "heads", "main">>,
     <<"refs", "tags", "v1">>, <<"refs", "pull", "42", "merge">>,
     <<"refs", "notes", "x">>}

CommitInputs == {"", "c1"}

\* The repository the helper looks at
RefHost(tracking, tags) ==
    [raised |-> "", log |-> << >>, gitEnv |-> GitEnvInitial, exit |-> 0,
     ret |-> FALSE, sha |-> "", info |-> NoCheckoutInfo,
     tracking |-> tracking, tags |-> tags]

RefInit ==
    /\ rh = RetryBlank
    /\ sync = Idle
    /\ auth = Idle
    /\ \E tracking \in [RefNames -> Shas \cup {""}],
          tags \in [RefNames -> Shas \cup {""}] :
          rf = [pc |-> "ready", op |-> "none", reference |-> << >>,
                commit |-> "", spec |-> << >>, w |-> RefHost(tracking, tags),
                fault |-> NoFault]

RefCalled(op, reference, commit, w1, spec, fault) ==
    [pc |-> "done", op |-> op, reference |-> reference, commit |-> commit,
     spec |-> spec, w |-> w1, fault |-> fault]

RefGetCheckoutInfo ==
    /\ rf.pc = "ready"
    /\ \E reference \in RefInputs, commit \in CommitInputs, a \in FaultPoints(2) :
          rf' = RefCalled("getCheckoutInfo", reference, commit,
                          getCheckoutInfo(rf.w, TRUE, reference, commit, {a}),
                          << >>, a)
    /\ UNCHANGED <<rh, sync, auth>>

RefTestReference ==
    /\ rf.pc = "ready"
    /\ \E reference \in RefInputs, commit \in CommitInputs, a \in FaultPoints(2) :
          rf' = RefCalled("testReference", reference, commit,
                          testReference(rf.w, TRUE, reference, commit, {a}),
                          << >>, a)
    /\ UNCHANGED <<rh, sync, auth>>

RefGetReferenceSpec ==
    /\ rf.pc = "ready"
    /\ \E reference \in RefInputs, commit \in CommitInputs :
          rf' = RefCalled("getReferenceSpec", reference, commit, rf.w,
                          getReferenceSpec(reference, commit), NoFault)
    /\ UNCHANGED <<rh, sync, auth>>

RefGetReferenceSpecForAllHistory ==
    /\ rf.pc = "ready"
    /\ \E reference \in RefInputs, commit \in CommitInputs :
          rf' = RefCalled("getReferenceSpecForAllHistory", reference, commit,
                          rf.w, getReferenceSpecForAllHistory(reference, commit),
                          NoFault)
    /\ UNCHANGED <<rh, sync, auth>>

RefNext ==
    \/ RefGetCheckoutInfo
    \/ RefTestReference
    \/ RefGetReferenceSpec
    \/ RefGetReferenceSpecForAllHistory

SpecRef == RefInit /\ [][RefNext]_vars

(***************************************************************************)
(* getSource (git-source-provider)                                         *)
(***************************************************************************)
\* getFetchUrl for owner "o", repository "r" on https://github.com
getFetchUrl(settings) ==
    IF settings.sshKey THEN "git@github.com:o/r.git"
    ELSE "https://github.com/o/r"

NotImplemented == "Function not implemented."

\* stateHelper.setSafeDirectory()
setSafeDirectory(w) == IF Raised(w) THEN w ELSE Throw(w, NotImplemented)

\* stateHelper.setRepositoryPath(repositoryPath)
setRepositoryPath(w, repositoryPath) ==
    IF Raised(w) THEN w ELSE Throw(w, NotImplemented)

\* git.config('safe.directory', path, true, true).catch(log)
configSafeDirectory(w, repositoryPath, oc) ==
    IF Raised(w) THEN w
    ELSE [config(w, "safe.directory", "/" \o JoinSlash(repositoryPath),
                 TRUE, TRUE, oc)
            EXCEPT !.raised = ""]

\* The requests of one retryHelper.execute: one when it succeeds, one per
\* attempt when every attempt fails
Requests(kind, oc) ==
    IF oc = "ok" THEN <<kind>> ELSE [i \in 1 .. defaultMaxAttempts |-> kind]

\* await retryHelper.execute(request)
request(w, kind, oc) ==
    IF Raised(w) THEN w
    ELSE [w EXCEPT !.net = @ \o Requests(kind, oc),
                   !.raised = IF oc = "ok" THEN "" ELSE "HttpError"]

\* if (!reference && !commit) reference = await getDefaultBranch(...)
defaultBranch(w, reference, commit, oc) ==
    IF reference = << >> /\ commit = ""
    THEN request(w, "repos.get", oc) ELSE w

\* the archive is written, extracted and moved into the directory
extractArchive(w1, repositoryPath, oc) ==
    IF Raised(w1) THEN w1
    ELSE IF oc # "ok" THEN Throw(w1, "extract failed")
    ELSE [w1 EXCEPT !.fs = FsWriteFile(@, Join(repositoryPath, "README"),
                                       w1.inodes + 1),
                    !.inodes = @ + 1]

\* downloadRepository (slots 1 .. 3)
downloadRepository(w, reference, commit, repositoryPath, p) ==
    extractArchive(
        request(defaultBranch(w, reference, commit, Oc(p, 1)),
                "repos.downloadTarballArchive", Oc(p, 2)),
        repositoryPath, Oc(p, 3))

PullRef == <<"refs", "pull", "42", "merge">>

Refs ==
    {<< >>, <<"foo">>, <<"refs", "heads", "foo", "bar">>, <<"refs", "tags", "v1">>,
     PullRef}

SyncSettings ==
    [authToken : {"tokA"}, sshKey : BOOLEAN, sshStrict : {TRUE},
     persistCredentials : BOOLEAN, nestedSubmodules : {TRUE},
     workflowOrganizationId : {FALSE}, setSafeDirectory : BOOLEAN,
     clean : BOOLEAN, ref : Refs, commit : CommitInputs, fetchDepth : {0},
     submodules : BOOLEAN, lfs : BOOLEAN]

OriginUrlOutputs ==
    {<< >>, <<"https://github.com/o/r">>, <<"https://github.com/o/other">>,
     <<"https://github.com/o/r", "https://github.com/o/r">>}

\* A checkout made for a pull request of a repository with a branch 42
PullRequestRefs ==
    [branches |-> << >>,
     remotes  |-> <<<<"refs", "remotes", "origin", "42">>,
                    <<"refs", "remotes", "origin", "main">>>>]

BranchSets ==
    {[branches |-> << >>, remotes |-> << >>],
     [branches |-> <<<<"refs", "heads", "foo">>, <<"refs", "heads", "main">>>>,
      remotes  |-> <<<<"refs", "remotes", "origin", "FOO">>,
                     <<"refs", "remotes", "origin", "foo", "bar", "main">>>>],
     PullRequestRefs}

\* What getSource finds on the machine
SyncHosts ==
    [gitAvailable : BOOLEAN, tree : DOMAIN Trees, runnerTemp : BOOLEAN,
     originUrl : OriginUrlOutputs, detached : BOOLEAN, refs : BranchSets,
     submodulesOk : BOOLEAN, stale : BOOLEAN]

\* Only the facts an execution can look at are varied.
SyncScenario(s, h) ==
    /\ (s.lfs \/ s.submodules) => ~h.gitAvailable
    /\ ~h.runnerTemp => (h.gitAvailable /\ s.setSafeDirectory)
    /\ (h.tree # "checkout" \/ ~h.gitAvailable \/ s.setSafeDirectory)
         => /\ h.originUrl = <<"https://github.com/o/r">>
            /\ h.detached /\ h.submodulesOk /\ ~h.stale
            /\ h.refs.remotes = << >>
            /\ (h.gitAvailable => s.ref = <<"foo">>) /\ s.clean
    /\ (h.originUrl # <<"https://github.com/o/r">> \/ s.sshKey)
         => (h.detached /\ h.refs.remotes = << >>
               /\ (h.gitAvailable => s.ref = <<"foo">>))
    /\ ~h.gitAvailable
         => /\ s.ref \in {<< >>, <<"foo">>}
            /\ (h.tree # "checkout" => s.commit = "")
    /\ h.gitAvailable => s.commit = ""
    /\ (s.ref = PullRef) = (h.refs = PullRequestRefs)
    /\ h.stale => ~s.persistCredentials

\* The process before getSource is called
SyncHost(s, h) ==
    [runnerTemp    |-> h.runnerTemp,
     isWindows     |-> FALSE,
     hasRepo       |-> directoryExistsSync(Trees[h.tree], GitDir(RepositoryPath)),
     hasSubmodule  |-> FALSE,
     realCfgExists |-> TRUE,
     cfg           |-> [local |-> IF h.stale THEN StaleLocalCfg ELSE << >>,
                        temp  |-> << >>,
                        real  |-> <<[k |-> "user.name", v |-> "worker"]>>,
                        sub   |-> << >>],
     fs            |-> Trees[h.tree],
     inodes        |-> 7,
     originUrl     |-> h.originUrl,
     detached      |-> h.detached,
     branches      |-> h.refs.branches,
     remotes       |-> h.refs.remotes,
     submodulesOk  |-> h.submodulesOk,
     untracked     |-> h.tree = "checkout",
     modified      |-> h.tree = "checkout",
     remove        |-> FALSE,
     deleted       |-> << >>,
     failed        |-> {},
     urlSeen       |-> << >>,
     net           |-> << >>]

Init ==
    /\ rh = RetryBlank
    /\ auth = Idle
    /\ rf = Idle
    /\ \E s \in SyncSettings, h \in SyncHosts :
          /\ SyncScenario(s, h)
          /\ sync = [pc           |-> "start",
                     settings     |-> s,
                     gitAvailable |-> h.gitAvailable,
                     git          |-> FALSE,
                     isExisting   |-> FALSE,
                     authHelper   |-> FALSE,
                     w            |-> createAuthHelper(s, SyncHost(s, h))
                                        @@ SyncHost(s, h),
                     error        |-> "",
                     prepared     |-> "none",
                     prepareError |-> "",
                     before       |-> [inode |-> 0, entries |-> << >>,
                                       remotes |-> << >>],
                     invoked      |-> [removeAuth |-> FALSE,
                                       removeGlobalConfig |-> FALSE],
                     pendingRm    |-> "none"]

\* The promise returned by getSource settles.
Settled(s, error) == [s EXCEPT !.pc = "settled", !.error = error]

\* An exception inside the try block takes control to the finally block.
Continue(s, w1, next) ==
    [s EXCEPT !.w     = [w1 EXCEPT !.raised = ""],
              !.error = w1.raised,
              !.pc    = IF Raised(w1) THEN "finally" ELSE next]

\* if (fileExistsSync(repositoryPath)) await rmRF(repositoryPath)
removeConflictingFile(w, repositoryPath, oc) ==
    IF fileExistsSync(w.fs, repositoryPath)
    THEN rmRFTree(w, repositoryPath, oc) ELSE w

\* isExisting = directoryExistsSync(path); if (!isExisting) await mkdirP(path)
createDirectory(w1, repositoryPath, oc) ==
    IF Raised(w1) THEN w1
    ELSE IF directoryExistsSync(w1.fs, repositoryPath)
    THEN [w1 EXCEPT !.ret = TRUE]
    ELSE mkdirP([w1 EXCEPT !.ret = FALSE], repositoryPath, oc)

\* The construction error is swallowed also when lfs is requested.
gitCommandManagerAlwaysFallsBack(s, w2) ==
    IF Raised(w2) THEN Settled([s EXCEPT !.w = [w2 EXCEPT !.raised = ""]], w2.raised)
    ELSE [s EXCEPT !.w = w2, !.isExisting = w2.ret, !.git = s.gitAvailable,
                   !.pc = "try"]

\* getGitCommandManager: undefined unless git is usable; lfs needs git
gitCommandManager(s, w2) ==
    IF Raised(w2) THEN Settled([s EXCEPT !.w = [w2 EXCEPT !.raised = ""]], w2.raised)
    ELSE IF ~s.gitAvailable /\ s.settings.lfs
    THEN Settled([s EXCEPT !.w = w2, !.isExisting = w2.ret],
                 "Unable to locate executable file: git")
    ELSE [s EXCEPT !.w = w2, !.isExisting = w2.ret, !.git = s.gitAvailable,
                   !.pc = "try"]

\* Lines before the try block
SyncStart ==
    /\ sync.pc = "start"
    /\ \E a \in {<<0, "fail">>, <<1, "fail">>, <<2, "fail">>} :
          sync' = gitCommandManager(sync,
                     createDirectory(
                         removeConflictingFile(sync.w, RepositoryPath, Oc({a}, 1)),
                         RepositoryPath, Oc({a}, 2)))
    /\ UNCHANGED <<rh, auth, rf>>

\* if (settings.setSafeDirectory) { ... } (slots 1 .. 4)
safeDirectory(w, settings, repositoryPath, p) ==
    IF ~settings.setSafeDirectory THEN w
    ELSE setSafeDirectory(
             configSafeDirectory(configureTempGlobalConfig(w, p, 0),
                                 repositoryPath, Oc(p, 4)))

\* if (git) { authHelper = createAuthHelper(git, settings); safe directory }
SyncCreateAuthHelper ==
    /\ sync.pc = "try"
    /\ \E a \in FaultPoints(4) :
          sync' = IF ~sync.git THEN [sync EXCEPT !.pc = "prepare"]
                  ELSE Continue([sync EXCEPT !.authHelper = TRUE],
                                safeDirectory(
                                    createAuthHelper(sync.settings, sync.w) @@ sync.w,
                                    sync.settings, RepositoryPath, {a}),
                                "prepare")
    /\ UNCHANGED <<rh, auth, rf>>

Prepared(s, w1) ==
    [Continue(s, w1, IF s.git THEN "save" ELSE "download")
       EXCEPT !.prepared = IF Raised(w1) THEN "raised" ELSE "returned",
              !.prepareError = w1.raised,
              !.before   = [inode   |-> s.w.fs[RepositoryPath].id,
                            entries |-> readdir(s.w.fs, RepositoryPath),
                            remotes |-> s.w.remotes]]

\* if (isExisting) await prepareExistingDirectory(...)
SyncPrepare ==
    /\ sync.pc = "prepare"
    /\ \E a \in FaultPoints(PrepareSlots), c \in RemovalFaults :
          sync' = IF ~sync.isExisting
                  THEN [sync EXCEPT !.pc = IF sync.git THEN "save" ELSE "download"]
                  ELSE Prepared(sync,
                           prepareExistingDirectory(
                               sync.w, sync.git, RepositoryPath,
                               getFetchUrl(sync.settings), sync.settings.clean,
                               sync.settings.ref, {a, c}, 0))
    /\ UNCHANGED <<rh, auth, rf>>

\* The options are looked at only once the archive is in place.
restApiDownloadsFirst(w, settings, repositoryPath, p) ==
    IF Raised(downloadRepository(w, settings.ref, settings.commit,
                                 repositoryPath, p))
    THEN downloadRepository(w, settings.ref, settings.commit, repositoryPath, p)
    ELSE IF settings.submodules
    THEN Throw(downloadRepository(w, settings.ref, settings.commit,
                                  repositoryPath, p),
               "Input 'submodules' not supported when falling back to download using the GitHub REST API.")
    ELSE IF settings.sshKey
    THEN Throw(downloadRepository(w, settings.ref, settings.commit,
                                  repositoryPath, p),
               "Input 'ssh-key' not supported when falling back to download using the GitHub REST API.")
    ELSE downloadRepository(w, settings.ref, settings.commit, repositoryPath, p)

\* if (!git) { ...; await downloadRepository(...); return }
restApi(w, settings, repositoryPath, p) ==
    IF settings.submodules
    THEN Throw(w, "Input 'submodules' not supported when falling back to download using the GitHub REST API.")
    ELSE IF settings.sshKey
    THEN Throw(w, "Input 'ssh-key' not supported when falling back to download using the GitHub REST API.")
    ELSE downloadRepository(w, settings.ref, settings.commit, repositoryPath, p)

\* The branch that was resolved is stored in the settings of the caller.
restApiReturnStoresReference(s, w1) ==
    [Continue(s, w1, "finally")
       EXCEPT !.settings.ref = IF @ = << >> /\ s.settings.commit = ""
                                     /\ ~Raised(w1)
                               THEN <<"refs", "heads", "main">> ELSE @]

\* settings.ref and settings.commit are passed by value; return
restApiReturn(s, w1) == Continue(s, w1, "finally")

SyncDownload ==
    /\ sync.pc = "download"
    /\ \E a \in {NoFault} \cup ((1 .. 3) \X {"fail"}) :
          sync' = restApiReturn(sync, restApi(sync.w, sync.settings,
                                              RepositoryPath, {a}))
    /\ UNCHANGED <<rh, auth, rf>>

\* Save state for the POST action
SyncSaveState ==
    /\ sync.pc = "save"
    /\ sync' = Continue(sync, setRepositoryPath(sync.w, RepositoryPath), "initialize")
    /\ UNCHANGED <<rh, auth, rf>>

\* authHelper.removeGlobalConfig() is called and not awaited: it runs up
\* to its first suspension, the deletion it started is still pending.
teardownGlobalConfig(s, w1) ==
    IF Raised(w1)
    THEN Settled([s EXCEPT !.w = [w1 EXCEPT !.raised = ""],
                           !.invoked.removeAuth = TRUE],
                 w1.raised)
    ELSE Settled([s EXCEPT !.w = removeGlobalConfigBegin(w1),
                           !.invoked = [removeAuth |-> ~s.settings.persistCredentials,
                                        removeGlobalConfig |-> TRUE],
                           !.pendingRm = IF w1.temporaryHomePath # ""
                                         THEN "inflight" ELSE "none"],
                 s.error)

\* finally { if (authHelper) { if (!persist) await removeAuth(); removeGlobalConfig() } }
SyncFinally ==
    /\ sync.pc = "finally"
    /\ \E a \in FaultPoints(RemoveAuthSlots) :
          sync' = IF ~sync.authHelper THEN Settled(sync, sync.error)
                  ELSE teardownGlobalConfig(sync,
                           IF sync.settings.persistCredentials THEN sync.w
                           ELSE removeAuth(sync.w, {a}, 0))
    /\ UNCHANGED <<rh, auth, rf>>

\* The deletion started by removeGlobalConfig finishes, after getSource.
SyncRemoveSettles ==
    /\ sync.pc = "settled"
    /\ sync.pendingRm = "inflight"
    /\ \E oc \in {"ok", "fail"} :
          sync' = [sync EXCEPT
                     !.w = [rmRF(sync.w, sync.w.temporaryHomePath, oc)
                              EXCEPT !.raised = ""],
                     !.pendingRm = IF oc = "ok" THEN "done" ELSE "unhandled"]
    /\ UNCHANGED <<rh, auth, rf>>

Next ==
    \/ SyncStart
    \/ SyncCreateAuthHelper
    \/ SyncPrepare
    \/ SyncDownload
    \/ SyncSaveState
    \/ SyncFinally
    \/ SyncRemoveSettles

Spec == Init /\ [][Next]_vars

(***************************************************************************)
(* cleanup(repositoryPath) on a workspace that a helper configured before  *)
(***************************************************************************)
\* What `git version` finds on the host where cleanup runs
GitInstalls == {"absent", "2.17.0", "2.40.0"}

\* gitVersion.checkMinimum(MinimumGitVersion), MinimumGitVersion = 2.18
checkMinimum(version) == version = "2.40.0"

\* createCommandManager(workingDirectory, false): a new overlay; git is
\* located, `git version` is run and checked (slot b+1)
createCommandManager(w, install, p, b) ==
    IF install = "absent"
    THEN Throw(w, "Unable to locate executable file: git")
    ELSE IF Raised(execGit([w EXCEPT !.gitEnv =
                                [n \in DOMAIN GitEnvInitial \ {"GIT_HTTP_USER_AGENT"}
                                   |-> GitEnvInitial[n]]],
                           <<"version">>, FALSE, Oc(p, b + 1)))
    THEN execGit([w EXCEPT !.gitEnv =
                     [n \in DOMAIN GitEnvInitial \ {"GIT_HTTP_USER_AGENT"}
                        |-> GitEnvInitial[n]]],
                 <<"version">>, FALSE, Oc(p, b + 1))
    ELSE IF ~checkMinimum(install)
    THEN Throw(execGit([w EXCEPT !.gitEnv =
                           [n \in DOMAIN GitEnvInitial \ {"GIT_HTTP_USER_AGENT"}
                              |-> GitEnvInitial[n]]],
                       <<"version">>, FALSE, Oc(p, b + 1)),
               "Minimum required git version is 2.18")
    ELSE [execGit([w EXCEPT !.gitEnv =
                      [n \in DOMAIN GitEnvInitial \ {"GIT_HTTP_USER_AGENT"}
                         |-> GitEnvInitial[n]]],
                  <<"version">>, FALSE, Oc(p, b + 1))
            EXCEPT !.gitEnv = GitEnvInitial]

\* gitSourceSettings || {}: every setting is undefined
NoSettings ==
    [authToken |-> "undefined", sshKey |-> FALSE, sshStrict |-> FALSE,
     persistCredentials |-> FALSE, nestedSubmodules |-> FALSE,
     workflowOrganizationId |-> FALSE]

\* gitAuthHelper.createAuthHelper(git): a new helper, all its paths empty
createAuthHelperForCleanup(w) ==
    [w EXCEPT !.settings = NoSettings, !.temporaryHomePath = "",
              !.sshKeyPath = "", !.sshKnownHostsPath = "", !.sshCommand = ""]

\* if (PostSetSafeDirectory) { configureTempGlobalConfig; config safe.directory }
\* (slots 2 .. 5)
cleanupSafeDirectory(w, post, repositoryPath, p) ==
    IF ~post THEN w
    ELSE configSafeDirectory(configureTempGlobalConfig(w, p, 1),
                             repositoryPath, Oc(p, 5))

\* try { safe directory; await authHelper.removeAuth() } (slots 2 .. 13)
cleanupTry(w, post, repositoryPath, p) ==
    removeAuth(cleanupSafeDirectory(w, post, repositoryPath, p), p, 5)

\* finally { authHelper.removeGlobalConfig() } with the promise dropped: the
\* HOME override is removed, the deletion is still running at the return.
cleanupFinallyNotAwaited(w1, p) ==
    [removeGlobalConfigBegin([w1 EXCEPT !.raised = ""]) EXCEPT !.raised = w1.raised]

\* finally { await authHelper.removeGlobalConfig() } (slot 14): its error
\* replaces the one of the try block
cleanupFinally(w1, p) ==
    IF Raised(removeGlobalConfig([w1 EXCEPT !.raised = ""], p, 13))
    THEN removeGlobalConfig([w1 EXCEPT !.raised = ""], p, 13)
    ELSE [removeGlobalConfig([w1 EXCEPT !.raised = ""], p, 13)
            EXCEPT !.raised = w1.raised]

\* The helper methods cleanup invoked, in order
cleanupInvoked(w, post, repositoryPath, p) ==
    (IF post THEN <<"configureTempGlobalConfig">> ELSE << >>)
      \o (IF Raised(cleanupSafeDirectory(w, post, repositoryPath, p))
          THEN << >> ELSE <<"removeAuth">>)
      \o <<"removeGlobalConfig">>

CleanupSettings ==
    [authToken : {"tokA"}, sshKey : BOOLEAN, sshStrict : {TRUE},
     persistCredentials : BOOLEAN, nestedSubmodules : {TRUE},
     workflowOrganizationId : {FALSE}]

CleanupFacts ==
    [runnerTemp : BOOLEAN, isWindows : {FALSE}, hasRepo : BOOLEAN,
     hasSubmodule : {FALSE}, realCfgExists : {TRUE},
     localCfg : {<<[k |-> "remote.origin.url", v |-> "https://github.com/o/r"]>>,
                 StaleLocalCfg},
     realCfg : {<<[k |-> "user.name", v |-> "worker"]>>},
     subCfg : {<< >>}]

\* A workspace, the settings of the sync that uses it, and the process in
\* which cleanup will run (STATE_setSafeDirectory, the git it finds).
CleanupInit ==
    /\ rh = RetryBlank
    /\ sync = Idle
    /\ rf = Idle
    /\ \E s \in CleanupSettings, f \in CleanupFacts, path \in {<< >>, RepositoryPath},
          post \in BOOLEAN, install \in GitInstalls :
          /\ (~f.hasRepo \/ path = << >> \/ install # "2.40.0")
               => (f.runnerTemp /\ ~post /\ f.localCfg # StaleLocalCfg)
          /\ auth = [pc             |-> "workspace",
                     repositoryPath |-> path,
                     PostSetSafeDirectory |-> post,
                     install        |-> install,
                     configured     |-> "none",
                     synced         |-> createAuthHelper(s, AuthHost(f)),
                     w              |-> createAuthHelper(s, AuthHost(f)),
                     invoked        |-> << >>,
                     plan           |-> {},
                     error          |-> ""]

\* The helper of a sync configures auth on the workspace, and the sync
\* tears down what it does not persist.
syncAuth(w, p) ==
    IF w.settings.persistCredentials THEN configureAuth(w, p, 0)
    ELSE [removeAuth([configureAuth(w, p, 0) EXCEPT !.raised = ""], {}, 0)
            EXCEPT !.raised = configureAuth(w, p, 0).raised]

CleanupConfigureAuth ==
    /\ auth.pc = "workspace"
    /\ auth.w.hasRepo
    /\ \E a \in FailPoints(ConfigureAuthSlots) :
          auth' = [auth EXCEPT
                     !.pc = "synced",
                     !.configured = IF Raised(syncAuth(Begin(auth.w), {a}))
                                    THEN "raised" ELSE "done",
                     !.synced = Settled1(syncAuth(Begin(auth.w), {a})),
                     !.w      = Settled1(syncAuth(Begin(auth.w), {a}))]
    /\ UNCHANGED <<rh, sync, rf>>

\* cleanup returned before it had a helper.
CleanupReturnedEarly(w1, p) ==
    [auth EXCEPT !.pc = "returned", !.w = Settled1(w1), !.invoked = << >>,
                 !.plan = p, !.error = ""]

\* cleanup(repositoryPath), with a fault plan over its 14 external steps
cleanup(repositoryPath, p) ==
    IF repositoryPath = << >> \/ ~auth.w.hasRepo
    THEN CleanupReturnedEarly(Begin(auth.w), p)
    ELSE IF Raised(createCommandManager(Begin(auth.w), auth.install, p, 0))
    THEN CleanupReturnedEarly(createCommandManager(Begin(auth.w), auth.install, p, 0),
                              p)
    ELSE [auth EXCEPT
            !.pc      = "returned",
            !.plan    = p,
            !.invoked = cleanupInvoked(
                            createAuthHelperForCleanup(
                                createCommandManager(Begin(auth.w), auth.install, p, 0)),
                            auth.PostSetSafeDirectory, repositoryPath, p),
            !.error   = cleanupFinally(
                            cleanupTry(
                                createAuthHelperForCleanup(
                                    createCommandManager(Begin(auth.w), auth.install, p, 0)),
                                auth.PostSetSafeDirectory, repositoryPath, p),
                            p).raised,
            !.w       = Settled1(
                            cleanupFinally(
                                cleanupTry(
                                    createAuthHelperForCleanup(
                                        createCommandManager(Begin(auth.w), auth.install, p, 0)),
                                    auth.PostSetSafeDirectory, repositoryPath, p),
                                p))]

Cleanup ==
    /\ auth.pc \in {"workspace", "synced"}
    /\ \E a \in FaultPoints(13), c \in {NoFault, <<14, "fail">>} :
          auth' = cleanup(auth.repositoryPath, {a, c})
    /\ UNCHANGED <<rh, sync, rf>>

CleanupNext ==
    \/ CleanupConfigureAuth
    \/ Cleanup

SpecCleanup == CleanupInit /\ [][CleanupNext]_vars

(***************************************************************************)
(* Two getSource executions in one process, on distinct directories,       *)
(* interleaved at their suspension points                                  *)
(***************************************************************************)
Executions == {1, 2}

PairPath(i) == <<"work", IF i = 1 THEN "a" ELSE "b">>

\* The directories that can be created under RUNNER_TEMP
PairHomes == {RunnerTemp \o "/" \o Uuid(n) : n \in 1 .. 2}

UserGlobalCfg == <<[k |-> "user.name", v |-> "worker"]>>

\* process.env of the worker process
ProcessEnv == [HOME |-> "/home/worker", RUNNER_TEMP |-> RunnerTemp]

PairSettings ==
    [authToken : {"tokA"}, sshKey : {FALSE}, sshStrict : {TRUE},
     persistCredentials : BOOLEAN, nestedSubmodules : {TRUE},
     workflowOrganizationId : {FALSE}, setSafeDirectory : BOOLEAN]

PairInit ==
    /\ rh = RetryBlank
    /\ auth = Idle
    /\ rf = Idle
    /\ \E s \in [Executions -> PairSettings], repo \in [Executions -> BOOLEAN] :
          sync = [ex |-> [i \in Executions |->
                            [pc                |-> "start",
                             settings          |-> s[i],
                             hasRepo           |-> repo[i],
                             local             |-> IF repo[i] THEN StaleLocalCfg
                                                   ELSE << >>,
                             temporaryHomePath |-> "",
                             gitEnv            |-> [n \in {} |-> ""],
                             pendingRm         |-> "none",
                             error             |-> ""]],
                  files   |-> {},
                  homes   |-> [h \in PairHomes |-> << >>],
                  owner   |-> [h \in PairHomes |-> 0],
                  real    |-> UserGlobalCfg,
                  env     |-> ProcessEnv,
                  uuids   |-> 0,
                  foreign |-> {}]

\* The home directory git resolves for execution i; "" = the user's own
PairHome(i) ==
    IF "HOME" \in DOMAIN sync.ex[i].gitEnv THEN sync.ex[i].gitEnv["HOME"] ELSE ""

\* What the command manager and the helper of execution i see
PairView(i) ==
    [createAuthHelper(sync.ex[i].settings,
                      [runnerTemp |-> TRUE, isWindows |-> FALSE,
                       hasRepo |-> sync.ex[i].hasRepo, hasSubmodule |-> FALSE,
                       realCfgExists |-> TRUE,
                       cfg |-> [local |-> sync.ex[i].local,
                                temp  |-> IF PairHome(i) \in sync.files
                                          THEN sync.homes[PairHome(i)] ELSE << >>,
                                real  |-> sync.real,
                                sub   |-> << >>]])
       EXCEPT !.temporaryHomePath = sync.ex[i].temporaryHomePath,
              !.gitEnv = sync.ex[i].gitEnv,
              !.files  = sync.files,
              !.uuids  = sync.uuids]

\* Execution i reads, overwrites or deletes a directory another one created.
Foreign(i, path, access) ==
    IF path \in PairHomes /\ path \in sync.files /\ sync.owner[path] # i
    THEN {[by |-> i, of |-> sync.owner[path], path |-> path, access |-> access]}
    ELSE {}

\* An exception inside the try block takes control to the finally block.
PairRaise(i, error) ==
    [sync EXCEPT !.ex[i].pc = "finally", !.ex[i].error = error]

\* createCommandManager and createAuthHelper: an overlay of its own
PairStart(i) ==
    /\ sync.ex[i].pc = "start"
    /\ sync' = [sync EXCEPT
                  !.ex[i].gitEnv = GitEnvInitial,
                  !.ex[i].pc = IF sync.ex[i].settings.setSafeDirectory
                               THEN "mkdir" ELSE "save"]
    /\ UNCHANGED <<rh, auth, rf>>

\* configureTempGlobalConfig: this.temporaryHomePath = join(RUNNER_TEMP,
\* uuid()); await fsp.mkdir(it, {recursive: true})
PairMkdir(i) ==
    /\ sync.ex[i].pc = "mkdir"
    /\ \E oc \in {"ok", "fail"} :
          sync' = [sync EXCEPT
                     !.uuids = @ + 1,
                     !.ex[i].temporaryHomePath = NewHome(PairView(i)),
                     !.ex[i].pc = IF oc = "ok" THEN "stat" ELSE "finally",
                     !.ex[i].error = IF oc = "ok" THEN "" ELSE "mkdir failed",
                     !.files = IF oc = "ok" THEN @ \cup {NewHome(PairView(i))} ELSE @,
                     !.owner[NewHome(PairView(i))] =
                         IF oc = "ok" /\ NewHome(PairView(i)) \notin sync.files
                         THEN i ELSE @,
                     !.foreign = @ \cup Foreign(i, NewHome(PairView(i)), "mkdir")]
    /\ UNCHANGED <<rh, auth, rf>>

\* await fsp.stat(join(os.homedir(), '.gitconfig'))
PairStat(i) ==
    /\ sync.ex[i].pc = "stat"
    /\ \E oc \in {"ok", "fail"} :
          sync' = IF oc = "ok" THEN [sync EXCEPT !.ex[i].pc = "copy"]
                  ELSE PairRaise(i, "stat failed")
    /\ UNCHANGED <<rh, auth, rf>>

\* await cp(gitConfigPath, newGitConfigPath); setEnvironmentVariable('HOME')
PairCopy(i) ==
    /\ sync.ex[i].pc = "copy"
    /\ \E oc \in {"ok", "fail"} :
          sync' = IF oc # "ok" \/ sync.ex[i].temporaryHomePath \notin sync.files
                  THEN PairRaise(i, "copying the global config failed")
                  ELSE [sync EXCEPT
                          !.homes[sync.ex[i].temporaryHomePath] = sync.real,
                          !.foreign = @ \cup Foreign(i, sync.ex[i].temporaryHomePath,
                                                     "overwrite"),
                          !.ex[i].gitEnv =
                              setEnvironmentVariable(PairView(i), "HOME",
                                  sync.ex[i].temporaryHomePath).gitEnv,
                          !.ex[i].pc = "safe"]
    /\ UNCHANGED <<rh, auth, rf>>

\* What a helper call of execution i left in the file system and configs
PairCommit(i, w1) ==
    [sync EXCEPT
       !.files = w1.files,
       !.real  = w1.cfg["real"],
       !.homes = [h \in PairHomes |->
                     IF h = PairHome(i) /\ h \in sync.files THEN w1.cfg["temp"]
                     ELSE IF h \in w1.files THEN @[h] ELSE << >>],
       !.ex[i].local  = w1.cfg["local"],
       !.ex[i].gitEnv = w1.gitEnv]

\* git config --global --add safe.directory <path>, its failure logged;
\* then stateHelper.setSafeDirectory() throws
PairSafeDirectory(i) ==
    /\ sync.ex[i].pc = "safe"
    /\ \E oc \in {"ok", "fail"} :
          sync' = [PairCommit(i, configSafeDirectory(PairView(i), PairPath(i), oc))
                     EXCEPT !.ex[i].pc = "finally",
                            !.ex[i].error = NotImplemented,
                            !.foreign = @ \cup Foreign(i, PairHome(i), "config")]
    /\ UNCHANGED <<rh, auth, rf>>

\* prepareExistingDirectory works in the directory of the execution; then
\* stateHelper.setRepositoryPath throws
PairSaveState(i) ==
    /\ sync.ex[i].pc = "save"
    /\ sync' = PairRaise(i, NotImplemented)
    /\ UNCHANGED <<rh, auth, rf>>

\* removeGlobalConfig up to its first suspension, the promise dropped
PairRemoveGlobalConfig(i, s1, w1) ==
    IF Raised(w1)
    THEN [s1 EXCEPT !.ex[i].pc = "settled", !.ex[i].error = w1.raised]
    ELSE [s1 EXCEPT !.ex[i].pc = "settled",
                    !.ex[i].gitEnv = removeGlobalConfigBegin(w1).gitEnv,
                    !.ex[i].pendingRm = IF w1.temporaryHomePath # ""
                                        THEN "inflight" ELSE "none"]

\* finally { if (!persistCredentials) await removeAuth(); removeGlobalConfig() }
PairFinally(i) ==
    /\ sync.ex[i].pc = "finally"
    /\ \E a \in FailPoints(RemoveAuthSlots) :
          sync' = IF sync.ex[i].settings.persistCredentials
                  THEN PairRemoveGlobalConfig(i, sync, PairView(i))
                  ELSE PairRemoveGlobalConfig(
                           i, PairCommit(i, removeAuth(PairView(i), {a}, 0)),
                           removeAuth(PairView(i), {a}, 0))
    /\ UNCHANGED <<rh, auth, rf>>

\* The deletion started by removeGlobalConfig finishes.
PairRemoveSettles(i) ==
    /\ sync.ex[i].pc = "settled"
    /\ sync.ex[i].pendingRm = "inflight"
    /\ \E oc \in {"ok", "fail"} :
          sync' = [PairCommit(i, [rmRF(PairView(i), sync.ex[i].temporaryHomePath, oc)
                                    EXCEPT !.raised = ""])
                     EXCEPT !.ex[i].pendingRm = IF oc = "ok" THEN "done"
                                                ELSE "unhandled",
                            !.foreign = @ \cup Foreign(i, sync.ex[i].temporaryHomePath,
                                                       "delete")]
    /\ UNCHANGED <<rh, auth, rf>>

PairNext ==
    \E i \in Executions :
        \/ PairStart(i)
        \/ PairMkdir(i)
        \/ PairStat(i)
        \/ PairCopy(i)
        \/ PairSafeDirectory(i)
        \/ PairSaveState(i)
        \/ PairFinally(i)
        \/ PairRemoveSettles(i)

SpecPair == PairInit /\ [][PairNext]_vars

(***************************************************************************)
(* The environment of a git invocation: one command manager, the process    *)
(* environment it runs in, and the calls consumers make on its overlay      *)
(***************************************************************************)
MaxEnvCalls == 4

\* process.env when the command manager is created
ProcessEnvs ==
    { [n \in {"PATH"} |-> "/usr/bin"],
      [n \in {"HOME", "GIT_TERMINAL_PROMPT"} |->
          IF n = "HOME" THEN "/home/worker" ELSE "1"],
      [n \in {"HOME", "GCM_INTERACTIVE", "GIT_SSH_COMMAND"} |->
          CASE n = "HOME" -> "/home/worker"
            [] n = "GCM_INTERACTIVE" -> "Always"
            [] OTHER -> "ssh -v"] }

\* The values the auth helper stores: HOME <- temporaryHomePath,
\* GIT_SSH_COMMAND <- sshCommand
OverlayValues ==
    [n \in {"HOME", "GIT_SSH_COMMAND"} |->
        IF n = "HOME"
        THEN {RunnerTemp \o "/" \o Uuid(1), RunnerTemp \o "/" \o Uuid(2)}
        ELSE {"ssh -i key -o StrictHostKeyChecking=yes"}]

\* The process environment is copied last and wins.
environmentProcessFirst(processEnv, gitEnv) ==
    [n \in DOMAIN processEnv \cup DOMAIN gitEnv |->
        IF n \in DOMAIN processEnv THEN processEnv[n] ELSE gitEnv[n]]

\* execGit: every key of process.env is copied, then every key of gitEnv
environment(processEnv, gitEnv) ==
    [n \in DOMAIN processEnv \cup DOMAIN gitEnv |->
        IF n \in DOMAIN gitEnv THEN gitEnv[n] ELSE processEnv[n]]

EnvInit ==
    /\ \E pe \in ProcessEnvs :
          auth = [pc         |-> "env",
                  processEnv |-> pe,
                  w          |-> [raised |-> "", log |-> << >>,
                                  gitEnv |-> GitEnvInitial, exit |-> 0],
                  spawned    |-> << >>,
                  calls      |-> 0]
    /\ rh = RetryBlank
    /\ sync = Idle
    /\ rf = Idle

EnvSetEnvironmentVariable ==
    /\ auth.pc = "env" /\ auth.calls < MaxEnvCalls
    /\ \E n \in DOMAIN OverlayValues : \E v \in OverlayValues[n] :
          auth' = [auth EXCEPT !.w = setEnvironmentVariable(auth.w, n, v),
                               !.calls = @ + 1]
    /\ UNCHANGED <<rh, sync, rf>>

EnvRemoveEnvironmentVariable ==
    /\ auth.pc = "env" /\ auth.calls < MaxEnvCalls
    /\ \E n \in DOMAIN OverlayValues :
          auth' = [auth EXCEPT !.w = removeEnvironmentVariable(auth.w, n),
                               !.calls = @ + 1]
    /\ UNCHANGED <<rh, sync, rf>>

\* One git invocation; exec.exec receives the merged environment
EnvExecGit ==
    /\ auth.pc = "env" /\ auth.calls < MaxEnvCalls
    /\ \E oc \in Outcomes : \E allowAllExitCodes \in BOOLEAN :
          auth' = [auth EXCEPT
                     !.w = [execGit(auth.w, <<"version">>, allowAllExitCodes, oc)
                              EXCEPT !.raised = ""],
                     !.spawned = Append(@, environment(auth.processEnv,
                                                       auth.w.gitEnv)),
                     !.calls = @ + 1]
    /\ UNCHANGED <<rh, sync, rf>>

EnvNext ==
    \/ EnvSetEnvironmentVariable
    \/ EnvRemoveEnvironmentVariable
    \/ EnvExecGit

SpecEnv == EnvInit /\ [][EnvNext]_vars

(***************************************************************************)
(* replaceTokenPlaceholder(configPath) on config files of any content      *)
(***************************************************************************)
MaxEntries == 3

\* The lines a config file may hold
PlaceholderEntries ==
    { [k |-> tokenConfigKey, v |-> tokenPlaceholderConfigValue],
      [k |-> "http.https://example.com/.extraheader",
       v |-> tokenPlaceholderConfigValue],
      [k |-> tokenConfigKey, v |-> "AUTHORIZATION: basic c3RhbGU="],
      [k |-> "remote.origin.url", v |-> "https://github.com/o/r"] }

PlaceholderContents ==
    UNION {[1 .. n -> PlaceholderEntries] : n \in 0 .. MaxEntries}

PlaceholderInit ==
    /\ \E t \in Tokens, content \in PlaceholderContents :
          LET h == createAuthHelper(
                      [authToken |-> t, sshKey |-> FALSE, sshStrict |-> TRUE,
                       persistCredentials |-> FALSE, nestedSubmodules |-> TRUE,
                       workflowOrganizationId |-> FALSE],
                      [runnerTemp |-> TRUE, isWindows |-> FALSE,
                       hasRepo |-> TRUE, hasSubmodule |-> FALSE,
                       realCfgExists |-> TRUE,
                       cfg |-> [local |-> content, temp |-> << >>,
                                real |-> << >>, sub |-> << >>]])
          IN  auth = [pc |-> "file", before |-> h, w |-> h, plan |-> NoFault]
    /\ rh = RetryBlank
    /\ sync = Idle
    /\ rf = Idle

\* replaceTokenPlaceholder(<repository>/.git/config); the read or the write
\* of the file may fail
PlaceholderReplace ==
    /\ auth.pc = "file"
    /\ \E p \in FailPoints(2) :
          auth' = [auth EXCEPT
                     !.pc   = "replaced",
                     !.plan = p,
                     !.w    = replaceTokenPlaceholder(auth.w, "local", {p}, 0)]
    /\ UNCHANGED <<rh, sync, rf>>

PlaceholderNext == PlaceholderReplace

SpecPlaceholder == PlaceholderInit /\ [][PlaceholderNext]_vars

(***************************************************************************)
(* fetch(referenceSpec, fetchDepth) of one command manager                 *)
(***************************************************************************)
\* The working directory before the fetch: no shallow marker, the marker
\* .git/shallow, or a directory of that name
FetchTrees ==
    { TreeCheckout,
      TreeCheckout @@ (Join(GitDir(RepositoryPath), "shallow") :> File(9)),
      TreeCheckout @@ (Join(GitDir(RepositoryPath), "shallow") :> Dir(9)) }

\* The refspec lists getSource passes
FetchReferenceSpecs ==
    { getReferenceSpecForAllHistory(<<"foo">>, ""),
      getReferenceSpecForAllHistory(<<"refs", "pull", "42", "merge">>, "c1"),
      getReferenceSpec(<<"foo">>, "c1"),
      getReferenceSpec(<<"refs", "tags", "v1">>, "") }

\* fetchDepth: << >> when the argument is omitted, <<n>> when it is given
FetchDepths == {<< >>, <<-1>>, <<0>>, <<2>>}

\* fetchDepth && fetchDepth > 0
PositiveDepth(fetchDepth) == fetchDepth # << >> /\ fetchDepth[1] > 0

\* --unshallow is pushed whenever the shallow marker exists.
fetchArgumentsUnshallowFirst(fs, workingDirectory, referenceSpec, fetchDepth) ==
    <<"-c", "protocol.version=2", "fetch">>
      \o (IF \E i \in 1 .. Len(referenceSpec) :
                referenceSpec[i] = tagsReferenceSpec
          THEN << >> ELSE <<"--no-tags">>)
      \o <<"--prune", "--progress", "--no-recurse-submodules">>
      \o (IF fileExistsSync(fs, Join(GitDir(workingDirectory), "shallow"))
          THEN <<"--unshallow">> ELSE << >>)
      \o (IF PositiveDepth(fetchDepth)
          THEN <<"--depth=" \o ToString(fetchDepth[1])>> ELSE << >>)
      \o <<"origin">> \o referenceSpec

\* The argument list fetch builds before it enters the retry helper
fetchArguments(fs, workingDirectory, referenceSpec, fetchDepth) ==
    <<"-c", "protocol.version=2", "fetch">>
      \o (IF \E i \in 1 .. Len(referenceSpec) :
                referenceSpec[i] = tagsReferenceSpec
          THEN << >> ELSE <<"--no-tags">>)
      \o <<"--prune", "--progress", "--no-recurse-submodules">>
      \o (IF PositiveDepth(fetchDepth)
          THEN <<"--depth=" \o ToString(fetchDepth[1])>>
          ELSE IF fileExistsSync(fs, Join(GitDir(workingDirectory), "shallow"))
          THEN <<"--unshallow">>
          ELSE << >>)
      \o <<"origin">> \o referenceSpec

\* What the action passed to retryHelper.execute yields for one execGit
FetchOutcome(w1) ==
    [ok |-> ~Raised(w1), v |-> IF Raised(w1) THEN w1.raised ELSE "undefined"]

FetchInit ==
    /\ \E fs \in FetchTrees :
          auth = [pc            |-> "idle",
                  fs            |-> fs,
                  w             |-> [raised |-> "", log |-> << >>,
                                     gitEnv |-> GitEnvInitial, exit |-> 0],
                  referenceSpec |-> << >>,
                  fetchDepth    |-> << >>]
    /\ rh = RetryBlank
    /\ sync = Idle
    /\ rf = Idle

\* fetch is called: the arguments are built, then retryHelper.execute
\* constructs a RetryHelper with the defaults and starts its loop
FetchCall ==
    /\ auth.pc = "idle"
    /\ \E referenceSpec \in FetchReferenceSpecs : \E fetchDepth \in FetchDepths :
          auth' = [auth EXCEPT
                     !.pc            = "fetching",
                     !.referenceSpec = referenceSpec,
                     !.fetchDepth    = fetchDepth]
    /\ rh' = [RetryHelperNew(defaultMaxAttempts, 2 * defaultMinSeconds,
                             2 * defaultMaxSeconds)
                EXCEPT !.attempt = 1,
                       !.pc = IF RetryLoopGuard(1, defaultMaxAttempts)
                              THEN "try" ELSE "last"]
    /\ UNCHANGED <<sync, rf>>

\* One attempt inside the loop: execGit(arguments_) in try/catch
FetchTry ==
    /\ auth.pc = "fetching" /\ rh.pc = "try"
    /\ \E oc \in Outcomes :
          LET w1 == execGit(auth.w,
                            fetchArguments(auth.fs, RepositoryPath,
                                           auth.referenceSpec, auth.fetchDepth),
                            FALSE, oc)
              o  == FetchOutcome(w1)
          IN  /\ rh' = [rh EXCEPT
                          !.calls  = Append(@, o),
                          !.trace  = Append(@, "call"),
                          !.logged = IF o.ok THEN @ ELSE Append(@, o.v),
                          !.pc     = AfterTry(o),
                          !.result = IF AfterTry(o) = "returned"
                                     THEN [kind |-> "value", v |-> o.v] ELSE @]
              /\ auth' = [auth EXCEPT
                            !.w  = [w1 EXCEPT !.raised = ""],
                            !.pc = IF AfterTry(o) = "returned"
                                   THEN "returned" ELSE @]
    /\ UNCHANGED <<sync, rf>>

FetchSleep ==
    /\ auth.pc = "fetching" /\ rh.pc = "sleep"
    /\ \E s \in SleepAmounts(rh) :
          rh' = [rh EXCEPT
                   !.trace   = Append(@, "sleep"),
                   !.slept   = Append(@, s),
                   !.attempt = @ + 1,
                   !.pc      = IF RetryLoopGuard(rh.attempt + 1, rh.maxAttempts)
                               THEN "try" ELSE "last"]
    /\ UNCHANGED <<sync, auth, rf>>

\* The last attempt: its error reaches the caller of fetch
FetchLast ==
    /\ auth.pc = "fetching" /\ rh.pc = "last"
    /\ \E oc \in Outcomes :
          LET w1 == execGit(auth.w,
                            fetchArguments(auth.fs, RepositoryPath,
                                           auth.referenceSpec, auth.fetchDepth),
                            FALSE, oc)
              o  == FetchOutcome(w1)
          IN  /\ rh' = [rh EXCEPT
                          !.calls  = Append(@, o),
                          !.trace  = Append(@, "call"),
                          !.pc     = IF o.ok THEN "returned" ELSE "thrown",
                          !.result = [kind |-> IF o.ok THEN "value" ELSE "error",
                                      v    |-> o.v]]
              /\ auth' = [auth EXCEPT
                            !.w  = w1,
                            !.pc = IF o.ok THEN "returned" ELSE "thrown"]
    /\ UNCHANGED <<sync, rf>>

FetchNext ==
    \/ FetchCall
    \/ FetchTry
    \/ FetchSleep
    \/ FetchLast

SpecFetch == FetchInit /\ [][FetchNext]_vars

(***************************************************************************)
(* Properties of getSource and prepareExistingDirectory                    *)
(***************************************************************************)
\* prepareExistingDirectory has just returned to getSource
JustPrepared == sync.prepared = "returned" /\ sync.pc \in {"save", "download"}

EntriesNow == readdir(sync.w.fs, RepositoryPath)

GitArgs == [i \in 1 .. Len(sync.w.log) |-> sync.w.log[i].args]

Issued(command) == \E i \in 1 .. Len(GitArgs) : GitArgs[i][1] = command

\* git.fetch runs git -c protocol.version=2 fetch ...
IsFetch(args) == Len(args) >= 3 /\ args[1] = "-c" /\ args[3] = "fetch"

Fetches == {i \in 1 .. Len(GitArgs) : IsFetch(GitArgs[i])}

\* C1: whenever an auth helper was created, every exit of getSource has
\* invoked removeGlobalConfig, and removeAuth too when persistCredentials
\* is false, also when removeAuth itself fails.
C1_TeardownOnEveryExit ==
    (sync.pc = "settled" /\ sync.authHelper)
      => /\ sync.invoked.removeGlobalConfig
         /\ (~sync.settings.persistCredentials => sync.invoked.removeAuth)

\* C2: when getSource has settled after a temporary HOME was established,
\* the HOME override is gone, the temporary directory is deleted, and no
\* teardown step is still in flight or can still fail.
C2_TeardownCompleteWhenSettled ==
    (sync.pc = "settled" /\ sync.w.temporaryHomePath # "")
      => /\ "HOME" \notin DOMAIN sync.w.gitEnv
         /\ sync.w.temporaryHomePath \notin sync.w.files
         /\ sync.pendingRm \notin {"inflight", "unhandled"}

\* C3: removeAuth and removeGlobalConfig return normally whichever of
\* their steps fails.
C3_TeardownNeverRaises ==
    auth.last.op \in {"removeAuth", "removeGlobalConfig"} => auth.last.raised = ""

ArgLists(w) == [i \in 1 .. Len(w.log) |-> w.log[i].args]

\* Positions of a config file that hold the helper's real credential
CredentialAt(w, file) ==
    {i \in 1 .. Len(w.cfg[file]) : w.cfg[file][i].v = tokenConfigValue(w)}

\* C4: for two different tokens and otherwise equal settings and outcomes
\* the external processes started are the same, argument for argument; no
\* argument is the real credential, every argument list that sets the
\* extraheader carries the placeholder, and the config files of the two
\* runs differ exactly where the real credential was written.
C4_TokenNeverInArguments ==
    /\ ArgLists(auth.w["tokA"]) = ArgLists(auth.w["tokB"])
    /\ auth.w["tokA"].execLog = auth.w["tokB"].execLog
    /\ \A t \in Tokens : \A i \in 1 .. Len(auth.w[t].log) :
          LET args == auth.w[t].log[i].args
          IN  /\ \A j \in 1 .. Len(args) : args[j] # tokenConfigValue(auth.w[t])
              /\ (args[1] = "config" /\ args[Len(args) - 1] = tokenConfigKey)
                   => args[Len(args)] = tokenPlaceholderConfigValue
    /\ \A file \in {"local", "temp", "sub"} :
          /\ Len(auth.w["tokA"].cfg[file]) = Len(auth.w["tokB"].cfg[file])
          /\ CredentialAt(auth.w["tokA"], file) = CredentialAt(auth.w["tokB"], file)
          /\ \A i \in 1 .. Len(auth.w["tokA"].cfg[file]) :
                i \notin CredentialAt(auth.w["tokA"], file)
                  => auth.w["tokA"].cfg[file][i] = auth.w["tokB"].cfg[file][i]

C4_Witness ==
    /\ auth.last = [op |-> "configureSubmoduleAuth", raised |-> ""]
    /\ \A t \in Tokens :
          /\ CredentialAt(auth.w[t], "sub") # {}
          /\ \E i \in 1 .. Len(auth.w[t].log) :
                auth.w[t].log[i].args[1] = "submodule"

\* C7: prepareExistingDirectory hands to rmRF only paths strictly inside
\* repositoryPath; after a normal return the directory is still there, the
\* same directory as before, and empty when removal was chosen.
C7_DirectoryItselfKept ==
    /\ sync.prepared # "none"
         => \A i \in 1 .. Len(sync.w.deleted) :
               /\ Under(RepositoryPath, sync.w.deleted[i])
               /\ Len(sync.w.deleted[i]) > Len(RepositoryPath)
    /\ sync.prepared = "returned"
         => /\ directoryExistsSync(sync.w.fs, RepositoryPath)
            /\ sync.w.fs[RepositoryPath].id = sync.before.inode
    /\ (JustPrepared /\ sync.w.remove) => EntriesNow = << >>

C7_Witness ==
    /\ JustPrepared
    /\ sync.w.remove
    /\ Len(sync.before.entries) = 3
    /\ Len(sync.w.deleted) >= 3

RemovalFailed == sync.prepareError \in {"readdir failed", "File was unable to be removed"}

\* C8: whichever git operation of prepareExistingDirectory fails (raises or
\* returns a failure result), the call does not propagate that failure and
\* finishes with the contents deleted.
C8_EveryGitFailureRecovered ==
    (sync.prepared # "none" /\ sync.w.failed # {} /\ ~RemovalFailed)
      => /\ sync.prepared = "returned"
         /\ sync.w.remove
         /\ (JustPrepared => EntriesNow = << >>)

StateChanging(args) == args[1] \in {"checkout", "branch", "clean", "reset"}

GitDirBefore == \E i \in 1 .. Len(sync.before.entries) : sync.before.entries[i] = ".git"

FetchUrlDiffers ==
    /\ sync.w.urlSeen # << >>
    /\ sync.w.urlSeen[1] # getFetchUrl(sync.settings)

\* C9: without a command manager, without a .git directory, or with a
\* fetch URL that differs from repositoryUrl (unreadable and multi-line
\* output included), removal is chosen and no checkout, branch deletion,
\* clean or reset is issued; a normal return leaves the directory empty.
C9_RemovalWithoutTouchingGit ==
    (sync.prepared # "none" /\ (~sync.git \/ ~GitDirBefore \/ FetchUrlDiffers))
      => /\ sync.w.remove
         /\ \A i \in 1 .. Len(GitArgs) : ~StateChanging(GitArgs[i])
         /\ (JustPrepared => EntriesNow = << >>)

C9_Witness ==
    /\ JustPrepared
    /\ sync.git
    /\ GitDirBefore
    /\ Len(sync.w.originUrl) = 2
    /\ sync.w.urlSeen = <<"">>
    /\ sync.w.remove

\* The checkout is reused: same fetch URL, clean requested, every step of
\* the preparation succeeded.
ReuseScenario ==
    /\ sync.git
    /\ sync.prepared = "returned"
    /\ sync.settings.clean
    /\ sync.w.urlSeen = <<getFetchUrl(sync.settings)>>
    /\ sync.w.failed = {}

\* C10: in the reuse scenario no entry of the directory is deleted, clean
\* is issued before reset, and getSource issues neither init nor remote
\* add but goes on to fetch and checkout.
C10_ReuseThenFetchAndCheckout ==
    ReuseScenario
      => /\ ~sync.w.remove
         /\ EntriesNow = sync.before.entries
         /\ \A i \in 1 .. Len(sync.w.deleted) :
               Len(sync.w.deleted[i]) > Len(RepositoryPath) + 1
         /\ \E i, j \in 1 .. Len(GitArgs) :
               i < j /\ GitArgs[i][1] = "clean" /\ GitArgs[j][1] = "reset"
         /\ ~Issued("init") /\ ~Issued("remote")
         /\ sync.pc = "settled"
              => (sync.error = "" /\ Fetches # {} /\ Issued("checkout"))

RemoteDeletion(args) ==
    /\ args[1] = "branch"
    /\ \E j \in 1 .. Len(args) : args[j] = "--delete"
    /\ \E j \in 1 .. Len(args) : args[j] = "--remote"

\* A repository without remote-tracking branches and tags
NoRefs == [n \in RefNames |-> ""]

\* C12: for the ref refs/pull/42/merge getCheckoutInfo returns
\* refs/remotes/pull/42/merge with no start point, and
\* prepareExistingDirectory deletes no remote-tracking ref: no branch
\* deletion with --remote is issued and the remote-tracking refs of a
\* reused checkout are the ones it had.
C12_PullRefsNeverDeleted ==
    sync.settings.ref = PullRef
      => /\ getCheckoutInfo(RefHost(NoRefs, NoRefs), TRUE, sync.settings.ref,
                            sync.settings.commit, {NoFault}).info
               = [ref |-> "refs/remotes/pull/42/merge", startPoint |-> ""]
         /\ \A i \in 1 .. Len(GitArgs) : ~RemoteDeletion(GitArgs[i])
         /\ sync.w.remotes = PullRequestRefs.remotes

C12_Witness ==
    /\ sync.settings.ref = PullRef
    /\ sync.prepared = "returned"
    /\ ~sync.w.remove
    /\ \E i \in 1 .. Len(GitArgs) :
          GitArgs[i] = <<"rev-parse", "--symbolic-full-name", "--branches">>
    /\ Issued("reset")

\* The branch name that was requested: the ref without refs/heads/, or the
\* unqualified ref
RequestedBranch ==
    IF StartsWithSlash(sync.settings.ref, <<"refs", "heads">>)
    THEN Slice(sync.settings.ref, 2) ELSE sync.settings.ref

\* The ref names a branch: it is not empty and not qualified outside refs/heads/
BranchRequested ==
    /\ sync.settings.ref # << >>
    /\ \/ StartsWithSlash(sync.settings.ref, <<"refs", "heads">>)
       \/ ~StartsWithSlash(sync.settings.ref, <<"refs">>)

\* N starts with M/ or M starts with N/, compared without regard to case
PrefixConflict(n, m) ==
    \/ StartsWithSlash(toUpperCase(n), toUpperCase(m))
    \/ StartsWithSlash(toUpperCase(m), toUpperCase(n))

\* prepareExistingDirectory returned having kept the checkout in place
ReusedInPlace ==
    /\ sync.prepared = "returned" /\ sync.git /\ GitDirBefore
    /\ ~sync.w.remove

StillTracked(r) == \E j \in 1 .. Len(sync.w.remotes) : sync.w.remotes[j] = r

\* C34: in the in-place reuse path, with requested branch name N, the
\* remote-tracking branch origin/M is deleted if and only if, without regard
\* to case, N starts with M/ or M starts with N/; the branch named N itself
\* stays, and nothing is deleted when the ref is empty or is a qualified
\* ref outside refs/heads/.
C34_ConflictingRemotesDeleted ==
    ReusedInPlace
      => \A i \in 1 .. Len(sync.before.remotes) :
            ~StillTracked(sync.before.remotes[i])
              <=> /\ BranchRequested
                  /\ PrefixConflict(RequestedBranch,
                                    Slice(sync.before.remotes[i], 3))

\* refs/heads/foo/bar was requested on a checkout tracking origin/FOO and
\* origin/foo/bar/main: both were deleted and the checkout was kept.
C34_Witness ==
    /\ ReusedInPlace
    /\ sync.settings.ref = <<"refs", "heads", "foo", "bar">>
    /\ Len(sync.before.remotes) = 2
    /\ sync.w.remotes = << >>

\* C39: once getSource has settled in an execution that used git: with
\* persistCredentials false the local config holds neither the token
\* extraheader key nor core.sshCommand and the SSH key and known-hosts files
\* of configureAuth do not exist, whether getSource succeeded or failed; with
\* persistCredentials true the teardown did not invoke removeAuth and the
\* token extraheader key set by configureAuth is in the local config (asked
\* of the executions in which no external operation failed, the ones in
\* which configureAuth is due).
C39_CredentialsAfterSettling ==
    (sync.pc = "settled" /\ sync.git /\ sync.authHelper)
      => /\ ~sync.settings.persistCredentials
              => /\ ~CfgHas(sync.w.cfg["local"], tokenConfigKey)
                 /\ ~CfgHas(sync.w.cfg["local"], SSH_COMMAND_KEY)
                 /\ sync.w.sshKeyPath \notin sync.w.files
                 /\ sync.w.sshKnownHostsPath \notin sync.w.files
         /\ sync.settings.persistCredentials
              => /\ ~sync.invoked.removeAuth
                 /\ sync.error \in {"", NotImplemented}
                      => CfgHas(sync.w.cfg["local"], tokenConfigKey)

(***************************************************************************)
(* Properties of the archive fallback                                      *)
(***************************************************************************)
GitMissing == "Unable to locate executable file: git"

IncompatibleOptions ==
    {"Input 'submodules' not supported when falling back to download using the GitHub REST API.",
     "Input 'ssh-key' not supported when falling back to download using the GitHub REST API."}

\* A file-system step on the workspace failed
FileSystemErrors == {"File was unable to be removed", "mkdir failed", "readdir failed"}

Downloaded ==
    \E i \in 1 .. Len(sync.w.net) : sync.w.net[i] = "repos.downloadTarballArchive"

NoGitSettled == sync.pc = "settled" /\ ~sync.gitAvailable

C17_IncompatibleBeforeNetwork ==
    (NoGitSettled /\ (sync.settings.submodules \/ sync.settings.sshKey))
      => /\ sync.error # ""
         /\ sync.w.net = << >>
         /\ Fetches = {}
         /\ ~sync.settings.lfs
              => sync.error \in IncompatibleOptions \cup FileSystemErrors

C17_Witness ==
    /\ NoGitSettled
    /\ sync.settings.submodules
    /\ sync.settings.ref = << >> /\ sync.settings.commit = ""
    /\ sync.error \in IncompatibleOptions

\* C18: when getSource fails with the incompatible-options error, no entry
\* of an existing working directory has been deleted or modified.
C18_IncompatibleLeavesWorkspace ==
    (sync.pc = "settled" /\ sync.error \in IncompatibleOptions /\ sync.isExisting)
      => /\ sync.w.deleted = << >>
         /\ EntriesNow = sync.before.entries

(***************************************************************************)
(* Properties of the fetch and the checkout of getSource                   *)
(***************************************************************************)
\* What getSource fails with when a process, a file operation or a request
\* has failed
ExternalFailures ==
    FileSystemErrors
      \cup {"exec: unable to run git", "exec: git failed with exit code 1",
            "HttpError", "extract failed", "RUNNER_TEMP is not defined",
            "writeFile failed", "readFile failed", "stat failed",
            "copying the global config failed",
            "exec: icacls failed", "Unable to locate executable file: ssh",
            "Unable to replace auth placeholder", GitMissing}

\* The refspecs are the last arguments of a fetch
EndsWith(args, spec) ==
    /\ Len(args) >= Len(spec)
    /\ SubSeq(args, Len(args) - Len(spec) + 1, Len(args)) = spec

FirstAt(P(_)) ==
    IF \E i \in 1 .. Len(GitArgs) : P(GitArgs[i])
    THEN CHOOSE i \in 1 .. Len(GitArgs) :
            P(GitArgs[i]) /\ \A j \in 1 .. i - 1 : ~P(GitArgs[j])
    ELSE 0

IsCheckout(args) == args[1] = "checkout" /\ args # <<"checkout", "--detach">>

\* C13: in full-history mode a getSource that no external failure stopped
\* has issued a first fetch with the all-history refspec, at most one more
\* fetch, that one with the targeted refspec getReferenceSpec(ref, commit),
\* and every fetch before the checkout.
C13_FullHistoryFetchThenRefetch ==
    (sync.pc = "settled" /\ sync.git /\ sync.settings.fetchDepth <= 0
       /\ sync.error \notin ExternalFailures)
      => /\ Cardinality(Fetches) \in {1, 2}
         /\ \A i \in Fetches :
               IF \A j \in Fetches : i <= j
               THEN EndsWith(GitArgs[i],
                             getReferenceSpecForAllHistory(sync.settings.ref,
                                                           sync.settings.commit))
               ELSE EndsWith(GitArgs[i],
                             getReferenceSpec(sync.settings.ref,
                                              sync.settings.commit))
         /\ FirstAt(IsCheckout) > 0
         /\ \A i \in Fetches : i < FirstAt(IsCheckout)

\* The directory held no .git when getSource started
FreshDirectory == ~sync.isExisting \/ (sync.prepared # "none" /\ ~GitDirBefore)

IsInit(args) == args[1] = "init"

IsRemoteAdd(args) ==
    args = <<"remote", "add", "origin", getFetchUrl(sync.settings)>>

IsConfigureAuth(args) ==
    args[1] = "config" /\ args[Len(args) - 1] = tokenConfigKey

IsCheckoutOfBranch(args) ==
    args = <<"checkout", "--progress", "--force", "-B",
             JoinSlash(sync.settings.ref),
             "refs/remotes/origin/" \o JoinSlash(sync.settings.ref)>>

\* C19: on a directory without .git, with a usable git and a branch name
\* as ref, a getSource that no external failure stopped completes
\* successfully, having issued init, remote add origin <fetch URL>, the
\* auth configuration, a fetch and the checkout of the branch from
\* refs/remotes/origin/<branch>, in that order.
C19_FreshCheckoutSequence ==
    (sync.pc = "settled" /\ sync.git /\ FreshDirectory
       /\ sync.settings.ref = <<"foo">>
       /\ sync.error \notin ExternalFailures)
      => /\ sync.error = ""
         /\ 0 < FirstAt(IsInit)
         /\ FirstAt(IsInit) < FirstAt(IsRemoteAdd)
         /\ FirstAt(IsRemoteAdd) < FirstAt(IsConfigureAuth)
         /\ FirstAt(IsConfigureAuth) < FirstAt(IsFetch)
         /\ FirstAt(IsFetch) < FirstAt(IsCheckoutOfBranch)

(***************************************************************************)
(* Properties of the auth round trip                                       *)
(***************************************************************************)
\* C20: after configureAuth and then removeAuth, both without a failing
\* step, the local config is what it was before configureAuth, entry for
\* entry: a key that was absent is absent, a key that was set (the token
\* extraheader key and core.sshCommand included) has its earlier values.
C20_RoundTripRestoresLocalConfig ==
    (auth.pc = "removed" /\ auth.clean) => auth.w.cfg.local = auth.before

(***************************************************************************)
(* Properties of the ref helper                                            *)
(***************************************************************************)
RefArgs == [i \in 1 .. Len(rf.w.log) |-> rf.w.log[i].args]

\* git could not be run, or exited non-zero where that raises
ExecError(w) ==
    w.raised \in {"exec: unable to run git", "exec: git failed with exit code 1"}

HasBranch(r) == ShaOf(rf.w.tracking, r) # ""

HasTag(r) == ShaOf(rf.w.tags, r) # ""

RefCall(op) == rf.pc = "done" /\ rf.op = op

\* The branch probe comes first, the tag probe second and only when the
\* branch is missing; the result is the branch, else the tag, else the error.
BranchThenTag(r) ==
    /\ Len(RefArgs) \in {1, 2}
    /\ RefArgs[1] = <<"branch", "--list", "--remote", "origin/" \o JoinSlash(r)>>
    /\ Len(RefArgs) = 2 => RefArgs[2] = <<"tag", "--list", JoinSlash(r)>>
    /\ ~ExecError(rf.w)
         => /\ HasBranch(r)
                 => /\ rf.w.raised = "" /\ Len(RefArgs) = 1
                    /\ rf.w.info = [ref |-> JoinSlash(r),
                                    startPoint |-> "refs/remotes/origin/"
                                                      \o JoinSlash(r)]
            /\ (~HasBranch(r) /\ HasTag(r))
                 => /\ rf.w.raised = ""
                    /\ rf.w.info = [ref |-> "refs/tags/" \o JoinSlash(r),
                                    startPoint |-> ""]
            /\ (~HasBranch(r) /\ ~HasTag(r))
                 => /\ rf.w.raised = NotFound(r)
                    /\ rf.w.info = NoCheckoutInfo

\* C11 as stated: every ref that does not start with refs/ is resolved by
\* probing the branch origin/r first and the tag r second.
C11_UnqualifiedAsStated ==
    (RefCall("getCheckoutInfo") /\ rf.reference # << >>
       /\ ~StartsWithSlash(rf.reference, <<"refs">>))
      => BranchThenTag(rf.reference)

\* C11: for a ref r that does not start with refs/ in any letter case,
\* getCheckoutInfo probes the remote-tracking branch origin/r first and the
\* tag r second: the branch wins (ref r, start point refs/remotes/origin/r),
\* else the tag (refs/tags/r, no start point), else the error naming r is
\* raised and no target is returned.
C11_UnqualifiedBranchThenTag ==
    (RefCall("getCheckoutInfo") /\ rf.reference # << >>
       /\ ~UpperStartsWith(rf.reference, <<"REFS">>))
      => BranchThenTag(rf.reference)

C11_Witness ==
    /\ RefCall("getCheckoutInfo")
    /\ rf.reference = <<"foo">>
    /\ HasBranch(<<"foo">>) /\ HasTag(<<"foo">>)
    /\ rf.w.info.startPoint = "refs/remotes/origin/foo"

\* C15: with a non-empty commit, testReference on refs/heads/<b> returns
\* true exactly when origin/<b> exists and refs/remotes/origin/<b> resolves
\* to the commit, and returns false, without raising, in every other case,
\* a missing remote-tracking branch included; likewise for refs/tags/<t>.
C15_MismatchIsAResult ==
    (RefCall("testReference") /\ rf.commit # "" /\ rf.fault = NoFault)
      => /\ StartsWithSlash(rf.reference, <<"refs", "heads">>)
              => /\ rf.w.raised = ""
                 /\ rf.w.ret = (/\ HasBranch(Slice(rf.reference, 2))
                                /\ rf.w.tracking[Slice(rf.reference, 2)] = rf.commit)
         /\ StartsWithSlash(rf.reference, <<"refs", "tags">>)
              => /\ rf.w.raised = ""
                 /\ rf.w.ret = (/\ HasTag(Slice(rf.reference, 2))
                                /\ rf.w.tags[Slice(rf.reference, 2)] = rf.commit)

(***************************************************************************)
(* Properties of the environment of a git invocation                       *)
(***************************************************************************)
\* C35: every git invocation of a command manager runs with
\* GIT_TERMINAL_PROMPT=0 and GCM_INTERACTIVE=Never in its environment, after
\* any sequence of setEnvironmentVariable and removeEnvironmentVariable calls
\* naming HOME and GIT_SSH_COMMAND, and every entry of the overlay appears in
\* that environment with the overlay's value, whatever the process
\* environment holds under the same name.
C35_PromptsSuppressed ==
    auth.pc = "env"
      => \A i \in 1 .. Len(auth.spawned) :
            /\ "GIT_TERMINAL_PROMPT" \in DOMAIN auth.spawned[i]
            /\ auth.spawned[i]["GIT_TERMINAL_PROMPT"] = "0"
            /\ "GCM_INTERACTIVE" \in DOMAIN auth.spawned[i]
            /\ auth.spawned[i]["GCM_INTERACTIVE"] = "Never"
            /\ \A n \in DOMAIN auth.w.log[i].env :
                  auth.spawned[i][n] = auth.w.log[i].env[n]
            /\ \A n \in DOMAIN auth.processEnv \ DOMAIN auth.w.log[i].env :
                  auth.spawned[i][n] = auth.processEnv[n]

\* The process sets GCM_INTERACTIVE=Always, HOME and GIT_SSH_COMMAND; HOME was
\* overridden and the SSH command was set and removed again before git ran:
\* git sees Never, the overriding HOME and the process's own GIT_SSH_COMMAND.
C35_Witness ==
    /\ auth.pc = "env"
    /\ Len(auth.spawned) = 1
    /\ "GCM_INTERACTIVE" \in DOMAIN auth.processEnv
    /\ auth.spawned[1]["GCM_INTERACTIVE"] = "Never"
    /\ auth.spawned[1]["HOME"] = RunnerTemp \o "/" \o Uuid(1)
    /\ auth.spawned[1]["GIT_SSH_COMMAND"] = "ssh -v"
    /\ auth.calls = 4

(***************************************************************************)
(* Properties of replaceTokenPlaceholder                                   *)
(***************************************************************************)
PlaceholderLines ==
    {i \in 1 .. Len(auth.before.cfg["local"]) :
        auth.before.cfg["local"][i].v = "AUTHORIZATION: basic ***"}

FileRewritten == auth.w.cfg["local"] # auth.before.cfg["local"]

\* C37: replaceTokenPlaceholder rewrites the config file only when the
\* placeholder occurs exactly once in it; the rewritten file differs from the
\* old one in that occurrence alone, which now holds the real credential;
\* when the placeholder is absent or occurs more than once an error is
\* raised and the file is as it was.  With exactly one occurrence and no
\* failure of the read or the write, the file is rewritten.
C37_PlaceholderReplacedOnce ==
    auth.pc = "replaced"
      => /\ FileRewritten => Cardinality(PlaceholderLines) = 1
         /\ FileRewritten
              => /\ Len(auth.w.cfg["local"]) = Len(auth.before.cfg["local"])
                 /\ \A i \in 1 .. Len(auth.before.cfg["local"]) :
                       auth.w.cfg["local"][i]
                         = IF i \in PlaceholderLines
                           THEN [k |-> auth.before.cfg["local"][i].k,
                                 v |-> "AUTHORIZATION: basic "
                                         \o Base64Credential(
                                              auth.w.settings.authToken)]
                           ELSE auth.before.cfg["local"][i]
         /\ Cardinality(PlaceholderLines) # 1
              => Raised(auth.w) /\ ~FileRewritten
         /\ (Cardinality(PlaceholderLines) = 1 /\ auth.plan = NoFault)
              => ~Raised(auth.w) /\ FileRewritten
         /\ [auth.w EXCEPT !.cfg = auth.before.cfg, !.raised = ""] = auth.before

\* A file holding the placeholder under two keys: the call raised 'Unable to
\* replace auth placeholder' and the file still holds both.
C37_Witness ==
    /\ auth.pc = "replaced"
    /\ Cardinality(PlaceholderLines) = 2
    /\ Len(auth.before.cfg["local"]) = 3
    /\ auth.plan = NoFault
    /\ auth.w.raised = "Unable to replace auth placeholder"
    /\ ~FileRewritten

(***************************************************************************)
(* Properties of the overlay under the auth helper's operations            *)
(***************************************************************************)
\* C38: removeAuth leaves the environment overlay of the command manager as
\* it was, so a GIT_SSH_COMMAND override installed by configureAuth is still
\* there after removeAuth; an entry leaves the overlay only in
\* removeGlobalConfig, and that entry is HOME.
C38_RemoveAuthKeepsOverlay ==
    [][(auth.pc = "ready" /\ auth'.pc = "ready" /\ auth'.calls = auth.calls + 1)
         => \A t \in Tokens :
               /\ auth'.last.op = "removeAuth"
                    => auth'.w[t].gitEnv = auth.w[t].gitEnv
               /\ \A n \in DOMAIN auth.w[t].gitEnv \ DOMAIN auth'.w[t].gitEnv :
                     auth'.last.op = "removeGlobalConfig" /\ n = "HOME"]_vars

\* removeAuth has returned on a helper that configureAuth had set up for
\* SSH: the key file and the known-hosts file are gone, and the overlay still
\* holds the GIT_SSH_COMMAND that names them.
C38_Witness ==
    /\ auth.pc = "ready"
    /\ auth.last = [op |-> "removeAuth", raised |-> ""]
    /\ auth.w["tokA"].sshKeyPath # ""
    /\ auth.w["tokA"].sshKeyPath \notin auth.w["tokA"].files
    /\ auth.w["tokA"].sshKnownHostsPath \notin auth.w["tokA"].files
    /\ "GIT_SSH_COMMAND" \in DOMAIN auth.w["tokA"].gitEnv
    /\ auth.w["tokA"].gitEnv["GIT_SSH_COMMAND"] = auth.w["tokA"].sshCommand
    /\ auth.w["tokA"].sshCommand # ""

(***************************************************************************)
(* Properties of fetch                                                     *)
(***************************************************************************)
Passes(args, flag) == \E i \in 1 .. Len(args) : args[i] = flag

DepthFlags(args) ==
    {i \in 1 .. Len(args) : \E n \in -1 .. 3 : args[i] = "--depth=" \o ToString(n)}

ShallowMarker == fileExistsSync(auth.fs, Join(GitDir(RepositoryPath), "shallow"))

AllTagsRequested ==
    \E i \in 1 .. Len(auth.referenceSpec) :
        auth.referenceSpec[i] = "+refs/tags/*:refs/tags/*"

\* C36: every git invocation of a fetch call passes --depth=N exactly when a
\* positive fetchDepth N was given, --unshallow exactly when no positive
\* depth was given and .git/shallow exists, never both; --no-tags exactly
\* when the refspec list lacks the all-tags refspec; always --prune and
\* --no-recurse-submodules; and one fetch call makes at most 3 invocations,
\* a further one only after the one before failed.
C36_FetchFlags ==
    auth.pc \in {"fetching", "returned", "thrown"}
      => /\ Len(auth.w.log) <= 3
         /\ \A i \in 1 .. Len(auth.w.log) :
               LET args == auth.w.log[i].args
               IN  /\ PositiveDepth(auth.fetchDepth)
                        => Passes(args, "--depth="
                                          \o ToString(auth.fetchDepth[1]))
                   /\ Cardinality(DepthFlags(args))
                        = (IF PositiveDepth(auth.fetchDepth) THEN 1 ELSE 0)
                   /\ Passes(args, "--unshallow")
                        <=> (~PositiveDepth(auth.fetchDepth) /\ ShallowMarker)
                   /\ ~(DepthFlags(args) # {} /\ Passes(args, "--unshallow"))
                   /\ Passes(args, "--no-tags") <=> ~AllTagsRequested
                   /\ Passes(args, "--prune")
                   /\ Passes(args, "--no-recurse-submodules")
                   /\ i > 1 => ~rh.calls[i - 1].ok
         /\ Len(rh.calls) = Len(auth.w.log)
         /\ auth.pc = "thrown"
              => Len(auth.w.log) = 3 /\ auth.w.raised = rh.calls[3].v
         /\ auth.pc = "returned" => rh.calls[Len(rh.calls)].ok

\* A fetch of depth 2 on a shallow checkout whose first two invocations
\* failed and whose third succeeded: --depth=2 and no --unshallow, three times.
C36_Witness ==
    /\ auth.pc = "returned"
    /\ Len(auth.w.log) = 3
    /\ auth.fetchDepth = <<2>>
    /\ ShallowMarker
    /\ ~AllTagsRequested
    /\ Passes(auth.w.log[3].args, "--depth=2")
    /\ Passes(auth.w.log[3].args, "--no-tags")
    /\ ~Passes(auth.w.log[3].args, "--unshallow")
    /\ Len(rh.slept) = 2

(***************************************************************************)
(* Properties of two interleaved executions                                *)
(***************************************************************************)
\* The HOME override of an execution names the directory it created itself.
OwnOverlay(i) ==
    PairHome(i) # ""
      => /\ PairHome(i) = sync.ex[i].temporaryHomePath
         /\ sync.owner[PairHome(i)] = i

CleanupDone == auth.pc = "returned"

\* createCommandManager fails: no usable git, or `git version` did not run
ConstructionFails ==
    \/ auth.install # "2.40.0"
    \/ \E kind \in {"fail", "spawn"} : <<1, kind>> \in auth.plan

\* One of the three conditions under which cleanup returns at once
ReturnsAtOnce ==
    \/ auth.repositoryPath = << >>
    \/ ~auth.w.hasRepo
    \/ ConstructionFails

\* configureTempGlobalConfig raises inside cleanup
TemporaryConfigFails ==
    /\ auth.PostSetSafeDirectory
    /\ \/ ~auth.w.runnerTemp
       \/ \E k \in 2 .. 4, kind \in {"fail", "spawn"} : <<k, kind>> \in auth.plan

\* Nothing but the version probe of the construction was run, nothing was
\* invoked or changed, and cleanup returned without an error.
ReturnedAtOnce ==
    /\ auth.invoked = << >>
    /\ auth.error = ""
    /\ \A i \in 1 .. Len(auth.w.log) : auth.w.log[i].args = <<"version">>
    /\ auth.w.files = auth.synced.files
    /\ auth.w.cfg = auth.synced.cfg

\* removeGlobalConfig had finished when cleanup settled: the HOME override
\* is gone, and the temporary home is deleted unless its deletion raised.
RemoveGlobalConfigAwaited ==
    /\ auth.invoked[Len(auth.invoked)] = "removeGlobalConfig"
    /\ "HOME" \notin DOMAIN auth.w.gitEnv
    /\ auth.w.temporaryHomePath # ""
         => \/ auth.w.temporaryHomePath \notin auth.w.files
            \/ auth.error = "File was unable to be removed"

\* C29 as stated: whenever cleanup gets past its three guards it invokes
\* removeAuth and then, on every exit path, invokes and awaits
\* removeGlobalConfig.
C29_CleanupAsStated ==
    CleanupDone
      => IF ReturnsAtOnce THEN ReturnedAtOnce
         ELSE /\ \E i \in 1 .. Len(auth.invoked) - 1 :
                    /\ auth.invoked[i] = "removeAuth"
                    /\ auth.invoked[i + 1] = "removeGlobalConfig"
              /\ RemoveGlobalConfigAwaited

\* C29: cleanup returns at once, having run no git command besides the
\* version probe of the construction, when the path is empty, when
\* <path>/.git/config does not exist or when the command manager cannot be
\* constructed; otherwise it invokes removeAuth unless establishing the
\* temporary global config for the safe directory raised, and on every exit
\* path it then invokes and awaits removeGlobalConfig.
C29_CleanupControlFlow ==
    CleanupDone
      => IF ReturnsAtOnce THEN ReturnedAtOnce
         ELSE /\ auth.invoked =
                   (IF auth.PostSetSafeDirectory
                    THEN <<"configureTempGlobalConfig">> ELSE << >>)
                     \o (IF TemporaryConfigFails THEN << >> ELSE <<"removeAuth">>)
                     \o <<"removeGlobalConfig">>
              /\ RemoveGlobalConfigAwaited

\* cleanup set up the safe directory, removeAuth raised, and the temporary
\* home was deleted before cleanup raised that error to its caller.
C29_Witness ==
    /\ CleanupDone /\ ~ReturnsAtOnce
    /\ auth.invoked = <<"configureTempGlobalConfig", "removeAuth", "removeGlobalConfig">>
    /\ auth.error = "exec: unable to run git"
    /\ auth.w.temporaryHomePath # ""
    /\ auth.w.temporaryHomePath \notin auth.w.files

\* A clean cleanup that got past its guards, after a sync that persisted
\* the token and the SSH command
CleanupAfterPersistingSync ==
    /\ CleanupDone /\ ~ReturnsAtOnce
    /\ auth.configured = "done"
    /\ auth.synced.settings.persistCredentials /\ auth.synced.settings.sshKey
    /\ auth.plan = {NoFault} /\ auth.error = ""

\* C28: after a sync that persisted credentials with an SSH key, followed by
\* cleanup(repositoryPath), the token extraheader key and core.sshCommand are
\* unset in the local config and the SSH key file and the known-hosts file
\* the sync wrote no longer exist.
C28_NoArtifactAfterCleanup ==
    CleanupAfterPersistingSync
      => /\ ~CfgHas(auth.w.cfg["local"], tokenConfigKey)
         /\ ~CfgHas(auth.w.cfg["local"], SSH_COMMAND_KEY)
         /\ auth.synced.sshKeyPath \notin auth.w.files
         /\ auth.synced.sshKnownHostsPath \notin auth.w.files

LastCall == auth.hist[Len(auth.hist)]

PreviousCall == auth.hist[Len(auth.hist) - 1]

Called(op) == Len(auth.hist) >= 1 /\ LastCall.op = op

\* temporaryHomePath was assigned when the last call started, and the
\* call was one of the two that set it up
FurtherSetup ==
    /\ Len(auth.hist) >= 2
    /\ LastCall.op \in {"configureTempGlobalConfig", "configureGlobalAuth"}
    /\ auth.before.temporaryHomePath # ""

\* C22: once temporaryHomePath is assigned, a further call of
\* configureTempGlobalConfig or configureGlobalAuth creates no new
\* temporary directory and assigns no new path, configureTempGlobalConfig
\* returns the same config path, the HOME entry of the overlay is left as
\* it was, and a configureGlobalAuth in which no step fails, right after
\* another in which no step failed, leaves the temporary global config as
\* it was.
C22_TemporaryHomeAssignedOnce ==
    FurtherSetup
      => /\ auth.w.temporaryHomePath = auth.before.temporaryHomePath
         /\ auth.w.uuids = auth.before.uuids
         /\ auth.w.files = auth.before.files
         /\ auth.w.gitEnv = auth.before.gitEnv
         /\ Called("configureTempGlobalConfig")
              => /\ LastCall.raised = ""
                 /\ auth.out = <<auth.before.temporaryHomePath \o "/.gitconfig">>
         /\ (/\ Called("configureGlobalAuth")
             /\ auth.clean
             /\ PreviousCall = [op |-> "configureGlobalAuth", raised |-> "",
                                clean |-> TRUE])
              => auth.w.cfg.temp = auth.before.cfg.temp

\* configureGlobalAuth succeeded twice in a row on a helper without an SSH
\* key, the temporary home still in place and HOME pointing at it
C22_Witness ==
    /\ Len(auth.hist) = 2
    /\ LastCall = [op |-> "configureGlobalAuth", raised |-> "", clean |-> TRUE]
    /\ PreviousCall = [op |-> "configureGlobalAuth", raised |-> "",
                       clean |-> TRUE]
    /\ ~auth.w.settings.sshKey
    /\ auth.w.temporaryHomePath \in auth.w.files
    /\ auth.w.gitEnv["HOME"] = auth.w.temporaryHomePath
    /\ auth.clean
    /\ CfgCount(auth.w.cfg.temp, insteadOfKey) = Len(insteadOfValues(auth.w))
    /\ CfgHas(auth.w.cfg.temp, tokenConfigKey)

\* The git commands of the last call that address the global config
GlobalCommands ==
    {i \in 1 .. Len(auth.w.log) : auth.w.log[i].args[2] = "--global"}

\* C23: every git command on --global configuration runs with HOME
\* overridden to the helper's temporary home, which exists, and the
\* user's real global config is as it was before the first call.
C23_GlobalConfigUnderTemporaryHome ==
    /\ \A i \in GlobalCommands :
          /\ "HOME" \in DOMAIN auth.w.log[i].env
          /\ auth.w.log[i].env["HOME"] = auth.w.temporaryHomePath
          /\ auth.w.temporaryHomePath \in auth.w.files
    /\ auth.w.cfg.real = auth.real

\* The global config git resolves under the helper's overlay
ResolvedGlobal == auth.w.cfg[ConfigTarget(auth.w, TRUE)]

\* The error the caller of the last configureGlobalAuth should see
OriginalError == IF auth.setup # "" THEN auth.setup ELSE auth.caught

GlobalAuthRaised == Called("configureGlobalAuth") /\ LastCall.raised # ""

\* C24 as stated: when configureGlobalAuth raises, whichever step failed,
\* the token key is not in the global config and the caller gets the
\* original error (the catch block's own command working).
C24_FailSafeAsStated ==
    (GlobalAuthRaised /\ auth.unset = "ok")
      => /\ ConfigTarget(auth.w, TRUE) # "missing"
         /\ ~CfgHas(ResolvedGlobal, tokenConfigKey)
         /\ LastCall.raised = OriginalError

IsTokenUnset(entry) ==
    entry.args = <<"config", "--global", "--unset-all", tokenConfigKey>>

\* C24: when a step of the try block raises, the last git command of the
\* call is the --global unset of the token key, after it (unless that
\* command itself fails) the key is not in the global config git
\* resolves, and the caller gets the original error (unless that command
\* cannot be run: then its error); when establishing the temporary global
\* config raises, no git command is run, no config file changes and the
\* caller gets that error.
C24_FailSafeInsideTry ==
    GlobalAuthRaised
      => /\ auth.setup # ""
              => /\ auth.w.log = << >>
                 /\ auth.w.cfg = auth.before.cfg
                 /\ LastCall.raised = auth.setup
         /\ auth.setup = ""
              => /\ auth.caught # ""
                 /\ auth.w.log # << >>
                 /\ IsTokenUnset(auth.w.log[Len(auth.w.log)])
                 /\ \A i \in 1 .. Len(auth.w.log) - 1 :
                       ~IsTokenUnset(auth.w.log[i])
                 /\ auth.unset = "ok"
                      => /\ ConfigTarget(auth.w, TRUE) # "missing"
                         /\ ~CfgHas(ResolvedGlobal, tokenConfigKey)
                 /\ LastCall.raised
                      = (IF auth.unset = "spawn" THEN "exec: unable to run git"
                         ELSE auth.caught)

\* The placeholder was written to the temporary global config, replacing
\* it failed, and the catch block unset the key
C24_Witness ==
    /\ GlobalAuthRaised
    /\ Len(auth.hist) = 1
    /\ auth.caught = "writeFile failed"
    /\ LastCall.raised = "writeFile failed"
    /\ auth.unset = "ok"
    /\ ConfigTarget(auth.w, TRUE) = "temp"
    /\ ~CfgHas(auth.w.cfg.temp, tokenConfigKey)
    /\ IsTokenUnset(auth.w.log[Len(auth.w.log)])

(***************************************************************************)
(* Properties of teardown                                                  *)
(***************************************************************************)
\* The helper was fresh when the teardown operation was called
NothingConfigured == auth.pc = "once" /\ auth.setup = "none"

\* Neither credential key is in the local config or in a submodule's
NoCredentialKeys(cfg, hasSubmodule) ==
    /\ ~CfgHas(cfg.local, SSH_COMMAND_KEY)
    /\ ~CfgHas(cfg.local, tokenConfigKey)
    /\ hasSubmodule
         => /\ ~CfgHas(cfg.sub, SSH_COMMAND_KEY)
            /\ ~CfgHas(cfg.sub, tokenConfigKey)

\* C21 as stated: on a helper for which nothing was configured removeAuth
\* and removeGlobalConfig delete no file and change no config key and no
\* environment override, and a second call in succession leaves the same
\* files, config and overlay as the first.
C21_TeardownAsStated ==
    /\ NothingConfigured => Artifacts(auth.w) = auth.start
    /\ (auth.pc = "twice" /\ auth.clean) => Artifacts(auth.w) = auth.once

\* C21: on a fresh helper removeGlobalConfig changes nothing, and
\* removeAuth changes nothing when neither credential key is in the local
\* config or a submodule config (a key left there is unset, whoever wrote
\* it); after a first call in which no step failed, a second call of the
\* same operation leaves the same files, config and overlay, whatever
\* happens to its steps.
C21_TeardownIdempotent ==
    /\ (NothingConfigured /\ auth.op = "removeGlobalConfig")
         => Artifacts(auth.w) = auth.start
    /\ (/\ NothingConfigured
        /\ auth.op = "removeAuth"
        /\ NoCredentialKeys(auth.start.cfg, auth.w.hasSubmodule))
         => Artifacts(auth.w) = auth.start
    /\ (NothingConfigured /\ auth.op = "removeAuth")
         => /\ auth.w.files = auth.start.files
            /\ auth.w.gitEnv = auth.start.gitEnv
            /\ auth.w.cfg.real = auth.start.cfg.real
            /\ (auth.clean => NoCredentialKeys(auth.w.cfg, auth.w.hasSubmodule))
    /\ (auth.pc = "twice" /\ auth.clean) => Artifacts(auth.w) = auth.once

\* removeAuth was called twice after a configureAuth that wrote the SSH
\* key and persisted both keys; the first call removed them
C21_Witness ==
    /\ auth.pc = "twice"
    /\ auth.clean
    /\ auth.op = "removeAuth"
    /\ auth.setup = "configureAuth"
    /\ auth.start.files # {}
    /\ CfgHas(auth.start.cfg.local, SSH_COMMAND_KEY)
    /\ auth.once.files = {}
    /\ NoCredentialKeys(auth.once.cfg, auth.w.hasSubmodule)

\* The kind of a ref, by its prefix compared without regard to case
RefKind(reference) ==
    CASE reference = << >>                              -> "empty"
      [] UpperStartsWith(reference, <<"REFS", "HEADS">>) -> "heads"
      [] UpperStartsWith(reference, <<"REFS", "PULL">>)  -> "pull"
      [] UpperStartsWith(reference, <<"REFS", "TAGS">>)  -> "tags"
      [] UpperStartsWith(reference, <<"REFS">>)          -> "refs"
      [] OTHER                                           -> "unqualified"

\* The ref as written, and what follows its first two segments
RefText == JoinSlash(rf.reference)

RefRest == JoinSlash(Slice(rf.reference, 2))

AllHistoryShape ==
    /\ Len(rf.spec) \in {2, 3}
    /\ rf.spec[1] = "+refs/heads/*:refs/remotes/origin/*"
    /\ rf.spec[2] = "+refs/tags/*:refs/tags/*"
    /\ Len(rf.spec) = 3 <=> RefKind(rf.reference) = "pull"

Mapped(ref, startPoint) ==
    /\ ~Raised(rf.w)
    /\ rf.w.info = [ref |-> ref, startPoint |-> startPoint]
    /\ rf.w.log = << >>

RetryAllFailed == \A i \in 1 .. Len(rh.calls) : ~rh.calls[i].ok

RetryFirstSuccess ==
    IF \E i \in 1 .. Len(rh.calls) : rh.calls[i].ok
    THEN CHOOSE i \in 1 .. Len(rh.calls) :
            /\ rh.calls[i].ok
            /\ \A j \in 1 .. i - 1 : ~rh.calls[j].ok
    ELSE 0

RetrySleeps == Cardinality({i \in 1 .. Len(rh.trace) : rh.trace[i] = "sleep"})

RetryFinished == rh.pc \in {"returned", "thrown"}

C6_SuccessOnKth ==
    /\ \A i \in 1 .. Len(rh.calls) - 1 : ~rh.calls[i].ok
    /\ \A i \in 1 .. Len(rh.trace) :
          rh.trace[i] = "sleep" => (i > 1 /\ rh.trace[i - 1] = "call")
    /\ (RetryFinished /\ rh.maxAttempts >= 1 /\ RetryFirstSuccess > 0)
         => /\ rh.pc = "returned"
            /\ Len(rh.calls) = RetryFirstSuccess
            /\ rh.result = [kind |-> "value", v |-> rh.calls[RetryFirstSuccess].v]
            /\ RetrySleeps = RetryFirstSuccess - 1
            /\ rh.trace[Len(rh.trace)] = "call"

C6_Witness ==
    /\ rh.pc = "returned"
    /\ rh.maxAttempts = 3
    /\ Len(rh.calls) = 2
    /\ RetrySleeps = 1

\* A RetryHelper has been constructed, or its construction has failed
RetryConstructed == rh.pc # "new"

\* C27 as stated: construction fails whenever the minSeconds passed exceed
\* the maxSeconds passed, succeeds whenever they do not, and no instance
\* holds a minimum backoff above its maximum.
C27_ConstructionAsStated ==
    RetryConstructed
      => /\ (rh.given.minHalves > rh.given.maxHalves) = (rh.pc = "ctor_error")
         /\ (rh.pc # "ctor_error" => rh.minSeconds <= rh.maxSeconds)

\* C27: construction fails exactly when floor(minSeconds) exceeds
\* floor(maxSeconds); every instance that exists, at any point of its
\* use, holds the floored values with minimum <= maximum, and every delay
\* it has slept lies between them.
C27_ConstructionComparesFloors ==
    RetryConstructed
      => /\ (Floor2(rh.given.minHalves) > Floor2(rh.given.maxHalves))
               = (rh.pc = "ctor_error")
         /\ (rh.pc # "ctor_error"
               => /\ rh.minSeconds = Floor2(rh.given.minHalves)
                  /\ rh.maxSeconds = Floor2(rh.given.maxHalves)
                  /\ rh.minSeconds <= rh.maxSeconds
                  /\ \A i \in 1 .. Len(rh.slept) :
                        rh.slept[i] \in rh.minSeconds .. rh.maxSeconds)

\* minSeconds 1.5 and maxSeconds 1 are accepted and stored as 1 and 1
C27_Witness ==
    /\ rh.pc = "ready"
    /\ rh.given = [minHalves |-> 3, maxHalves |-> 2]
    /\ rh.minSeconds = 1
    /\ rh.maxSeconds = 1

\* Inverted bounds are refused at construction
C27_WitnessRefused ==
    /\ rh.pc = "ctor_error"
    /\ rh.given = [minHalves |-> 4, maxHalves |-> 3]

\* C40: a RetryHelper constructed with maxAttempts <= 1 (0 and negative
\* values included) makes execute invoke the operation exactly once and
\* sleep never, and what reaches the caller is that invocation's value, or
\* its error unmodified.
C40_SingleAttempt ==
    (rh.pc \in {"try", "sleep", "last", "returned", "thrown"}
       /\ rh.maxAttempts <= 1)
      => /\ rh.pc \notin {"try", "sleep"}
         /\ rh.slept = << >>
         /\ Len(rh.calls) <= 1
         /\ RetryFinished
              => /\ rh.trace = <<"call">>
                 /\ Len(rh.calls) = 1
                 /\ rh.result = [kind |-> IF rh.calls[1].ok THEN "value"
                                          ELSE "error",
                                 v    |-> rh.calls[1].v]
                 /\ rh.pc = (IF rh.calls[1].ok THEN "returned" ELSE "thrown")

\* A helper with maxAttempts = 0 whose only invocation failed with err2: the
\* caller got err2.
C40_Witness ==
    /\ rh.pc = "thrown"
    /\ rh.maxAttempts = 0
    /\ rh.calls = <<[ok |-> FALSE, v |-> "err2"]>>
    /\ rh.result = [kind |-> "error", v |-> "err2"]
    /\ rh.slept = << >>

====
